---- MODULE Spec2Model ----
(***************************************************************************)
(* Model of meshestra's dependency-injection container                     *)
(* (src/src/di/container.rs), of the example transaction handle            *)
(* (examples/example-server/src/infrastructure/transaction.rs) and of the  *)
(* code the #[transactional] attribute generates                           *)
(* (meshestra-macro/src/transactional.rs) around the task-local slot       *)
(* ACTIVE_TRANSACTION (src/src/transactional/mod.rs).                      *)
(*                                                                         *)
(* Several specifications share the module: SpecDI (the container),        *)
(* SpecHandle (one caller driving commit/rollback on handles), SpecTx (the *)
(* boundary executor in one task), SpecInterceptor (the                    *)
(* TransactionalInterceptor), SpecRequest (a handler under the interceptor *)
(* calling boundaries), SpecConc (two tasks, each in a boundary of its     *)
(* own), SpecBoundaryLive (one task, with fairness), SpecLazy, SpecModule, *)
(* SpecLifecycle, SpecSaga (src/src/saga/mod.rs) and SpecMiddleware        *)
(* (src/src/interceptor/layer.rs).  Each leaves the other parts'           *)
(* variables alone.                                                        *)
(***************************************************************************)
EXTENDS Integers, Sequences, FiniteSets, TLC

\* ------------------------------------------------------------------ bounds

\* Fresh Arc allocations (instance identities) the container model may make.
MaxInst == 3

\* Transaction handles the manager may hand out in one behaviour.
MaxHandles == 2

\* Nesting depth of #[transactional] calls inside one task.
MaxDepth == 2

\* commit/rollback calls the free-standing driver of SpecHandle makes.
MaxCalls == 4

\* Entries in the providers list of a #[module] declaration.
MaxProviders == 2

\* Registration calls made on one ApplicationBuilder.
MaxHooks == 2

\* add_step calls made on one SagaOrchestrator.
MaxSteps == 3

\* Interceptors in the list of one InterceptorMiddleware.
MaxInterceptors == 3

\* ------------------------------------------------------------- the container

\* Concrete type identities (TypeId::of::<T>() for Sized T) and capability
\* identities (TypeId::of::<dyn Trait>()).
Types == {"A", "B"}
Traits == {"P", "Q"}

\* register_trait only asks `Trait: ?Sized`: a capability can be a `dyn Trait`
\* ("P") or a Sized type ("Q").  contains::<T>() has the implicit Sized bound,
\* so it can be asked about concrete types and Sized capabilities only.  The
\* capability types of the model are never passed to register.
SizedCaps == {"Q"}

\* An absent Option of the container's maps.
None == [present |-> FALSE]

VARIABLES
    services,        \* Container.services: TypeId -> ServiceEntry, None when absent
    trait_mappings,  \* Container.trait_mappings: trait TypeId -> impl TypeId
    casters,         \* Container.casters: trait TypeId -> closure (its captured types)
    nextInst,        \* next fresh instance identity (Arc::new in register)
    lastCall,        \* the most recent container call and what it returned
    lastReg,         \* history: the instance most recently passed to register::<T>
    lastBind,        \* history: the Impl last bound to each capability, whether Impl
                     \*          was registered when register_trait ran, and the Impl
                     \*          bound before it
    handles,         \* per handle: SeaOrmTransaction.inner, the calls made on it, its lock
    nextHandle,      \* next handle the manager's begin will return
    hLog,            \* SpecHandle: per handle, the sequence of calls the driver made
    stack,           \* per task: the stack of #[transactional] frames
    slot,            \* per task: ACTIVE_TRANSACTION, as the stack of scope() values
    task,            \* per task: "run" | "panicked" | "cancelled" | "off" (takes no part)
    returned,        \* per task: the invocation that returned last, or the one
                     \*           that was aborted by a panic or a cancellation
    icpt,            \* the request TransactionalInterceptor::intercept is handling
    lazy,            \* one Lazy<T> handle: its Once, its instance cell, history
    lzTask,          \* per thread: where it is inside Lazy::deref
    modReg,          \* the run of a #[module]'s generated register(container)
    life,            \* ApplicationBuilder / Application with its LifecycleManager
    saga,            \* a SagaOrchestrator and the run of its execute
    mw               \* an InterceptorMiddleware and the request its call is serving

diVars == <<services, trait_mappings, casters, nextInst, lastCall, lastReg, lastBind>>
hVars == <<handles, nextHandle>>
txVars == <<stack, slot, task, returned>>
lazyVars == <<lazy, lzTask>>
vars == <<diVars, hVars, hLog, txVars, icpt, lazyVars, modReg, life, saga, mw>>

\* MeshestraError values a resolution can return.
DependencyNotFound(name) == [kind |-> "Err", err |-> "DependencyNotFound", type_name |-> name]
DowncastFailed(name) == [kind |-> "Err", err |-> "DowncastFailed", type_name |-> name]
Resolved(inst) == [kind |-> "Ok", inst |-> inst]
\* .expect() on a failed downcast inside the caster closure.
Panic == [kind |-> "Panic"]

\* ServiceEntry { instance: Arc<dyn Any>, type_name }.  payload is the concrete
\* type behind the dyn Any, which Arc::downcast compares with the requested one.
ServiceEntry(T, inst) ==
    [present |-> TRUE, instance |-> inst, payload |-> T, type_name |-> T]

\* DashMap::insert on services: the entry under the key is replaced.
services_insert_keep_first(T, entry) ==
    IF services[T] = None THEN [services EXCEPT ![T] = entry] ELSE services

services_insert(T, entry) == [services EXCEPT ![T] = entry]

\* The closure register_trait stores: it captures Impl (the downcast target) and
\* Trait (the Arc<Arc<Trait>> it wraps the result in).
Caster(Trait, Impl) == [present |-> TRUE, impl |-> Impl, trait |-> Trait]

\* register_trait's two inserts, as the new (trait_mappings, casters).
register_trait_eager(Trait, Impl) ==
    IF services[Impl] = None
    THEN <<trait_mappings, casters>>
    ELSE <<[trait_mappings EXCEPT ![Trait] = Impl],
           [casters EXCEPT ![Trait] = Caster(Trait, Impl)]>>

\* (a re-binding that leaves the caster stored first in place)
register_trait_stale_caster(Trait, Impl) ==
    <<[trait_mappings EXCEPT ![Trait] = Impl],
      IF casters[Trait] = None THEN [casters EXCEPT ![Trait] = Caster(Trait, Impl)]
                               ELSE casters>>

\* (a re-binding that leaves the first binding in place)
register_trait_keep_first(Trait, Impl) ==
    IF trait_mappings[Trait] # "-"
    THEN <<trait_mappings, casters>>
    ELSE <<[trait_mappings EXCEPT ![Trait] = Impl],
           [casters EXCEPT ![Trait] = Caster(Trait, Impl)]>>

register_trait_maps(Trait, Impl) ==
    <<[trait_mappings EXCEPT ![Trait] = Impl],
      [casters EXCEPT ![Trait] = Caster(Trait, Impl)]>>

\* Container::resolve::<T>()
resolve_unwrap(T) ==
    LET entry == services[T]
    IN IF entry = None
       THEN Panic
       ELSE IF entry.payload = T
            THEN Resolved(entry.instance)
            ELSE DowncastFailed(T)

resolve(T) ==
    LET entry == services[T]
    IN IF entry = None
       THEN DependencyNotFound(T)
       ELSE IF entry.payload = T
            THEN Resolved(entry.instance)
            ELSE DowncastFailed(T)

\* Running a stored caster on an instance: instance.downcast::<Impl>().expect(..)
\* panics on a foreign payload; otherwise the capability handle points at the
\* same instance and is wrapped as Arc<Arc<Trait>>.
RunCaster_copy(caster, entry) ==
    IF entry.payload = caster.impl
    THEN [kind |-> "Wrapper", trait |-> caster.trait, inst |-> 0 - entry.instance]
    ELSE Panic

RunCaster(caster, entry) ==
    IF entry.payload = caster.impl
    THEN [kind |-> "Wrapper", trait |-> caster.trait, inst |-> entry.instance]
    ELSE Panic

\* Container::resolve_trait::<T>()
resolve_trait_unchecked(T) ==
    IF casters[T] # None
    THEN IF trait_mappings[T] = "-"
         THEN DependencyNotFound(T)
         ELSE LET entry == services[trait_mappings[T]]
              IN IF entry = None
                 THEN Panic
                 ELSE Resolved(entry.instance)
    ELSE DependencyNotFound("Unknown Trait")

resolve_trait_same_message(T) ==
    IF casters[T] # None
    THEN IF trait_mappings[T] = "-"
         THEN DependencyNotFound(T)
         ELSE LET entry == services[trait_mappings[T]]
              IN IF entry = None
                 THEN DependencyNotFound("Unknown Trait")
                 ELSE LET cast_result == RunCaster(casters[T], entry)
                      IN IF cast_result = Panic
                         THEN Panic
                         ELSE IF cast_result.trait = T
                              THEN Resolved(cast_result.inst)
                              ELSE DowncastFailed("Trait Wrapper Downcast Failed")
    ELSE DependencyNotFound("Unknown Trait")

resolve_trait(T) ==
    IF casters[T] # None
    THEN IF trait_mappings[T] = "-"
         THEN DependencyNotFound(T)
         ELSE LET entry == services[trait_mappings[T]]
              IN IF entry = None
                 THEN DependencyNotFound(T)
                 ELSE LET cast_result == RunCaster(casters[T], entry)
                      IN IF cast_result = Panic
                         THEN Panic
                         ELSE IF cast_result.trait = T
                              THEN Resolved(cast_result.inst)
                              ELSE DowncastFailed("Trait Wrapper Downcast Failed")
    ELSE DependencyNotFound("Unknown Trait")

\* Container::contains::<T>(), len(), is_empty()
contains_services_only(T) == T \in Types /\ services[T] # None

contains(T) ==
    \/ (T \in Types /\ services[T] # None)
    \/ (T \in Traits /\ trait_mappings[T] # "-")

len == Cardinality({T \in Types : services[T] # None})

is_empty == len = 0

NoCall == [op |-> "none"]
NoBind == [impl |-> "-", order |-> "-", prev |-> "-"]

\* Container::new()
InitDI ==
    /\ services = [T \in Types |-> None]
    /\ trait_mappings = [C \in Traits |-> "-"]
    /\ casters = [C \in Traits |-> None]
    /\ nextInst = 1
    /\ lastCall = NoCall
    /\ lastReg = [T \in Types |-> 0]
    /\ lastBind = [C \in Traits |-> NoBind]

\* Container::register::<T>(instance) (and ContainerBuilder::register)
register(T) ==
    /\ nextInst <= MaxInst
    /\ services' = services_insert(T, ServiceEntry(T, nextInst))
    /\ nextInst' = nextInst + 1
    /\ lastReg' = [lastReg EXCEPT ![T] = nextInst]
    /\ lastCall' = [op |-> "register", ty |-> T, inst |-> nextInst]
    /\ UNCHANGED <<trait_mappings, casters, lastBind>>

\* Container::register_trait::<Trait, Impl, F>(caster_fn) (and ContainerBuilder::bind)
register_trait(Trait, Impl) ==
    /\ trait_mappings' = register_trait_maps(Trait, Impl)[1]
    /\ casters' = register_trait_maps(Trait, Impl)[2]
    /\ lastBind' = [lastBind EXCEPT ![Trait] =
                       [impl |-> Impl,
                        order |-> IF services[Impl] = None THEN "bind_first"
                                                           ELSE "register_first",
                        prev |-> lastBind[Trait].impl]]
    /\ lastCall' = [op |-> "register_trait", trait |-> Trait, impl |-> Impl]
    /\ UNCHANGED <<services, nextInst, lastReg>>

\* The three maps after a &self query: resolve, resolve_trait and contains only
\* call DashMap::get / contains_key (and clone the Arc they find), len and
\* is_empty only DashMap::len / is_empty.
after_query_evicting == <<[T \in Types |-> None], trait_mappings, casters>>

after_query == <<services, trait_mappings, casters>>

\* A caller invoking one of the read-only entry points; lastCall keeps the result.
CallResolve(T) ==
    /\ lastCall' = [op |-> "resolve", ty |-> T, res |-> resolve(T)]
    /\ services' = after_query[1]
    /\ trait_mappings' = after_query[2]
    /\ casters' = after_query[3]
    /\ UNCHANGED <<nextInst, lastReg, lastBind>>

CallResolveTrait(C) ==
    /\ lastCall' = [op |-> "resolve_trait", trait |-> C, res |-> resolve_trait(C)]
    /\ services' = after_query[1]
    /\ trait_mappings' = after_query[2]
    /\ casters' = after_query[3]
    /\ UNCHANGED <<nextInst, lastReg, lastBind>>

CallContains(T) ==
    /\ lastCall' = [op |-> "contains", ty |-> T, res |-> contains(T)]
    /\ services' = after_query[1]
    /\ trait_mappings' = after_query[2]
    /\ casters' = after_query[3]
    /\ UNCHANGED <<nextInst, lastReg, lastBind>>

CallLen ==
    /\ lastCall' = [op |-> "len", res |-> len, empty |-> is_empty]
    /\ services' = after_query[1]
    /\ trait_mappings' = after_query[2]
    /\ casters' = after_query[3]
    /\ UNCHANGED <<nextInst, lastReg, lastBind>>

NextDI ==
    \/ \E T \in Types : register(T)
    \/ \E C \in Traits, I \in Types : register_trait(C, I)
    \/ \E T \in Types : CallResolve(T)
    \/ \E C \in Traits : CallResolveTrait(C)
    \/ \E T \in Types \cup SizedCaps : CallContains(T)
    \/ CallLen

\* ------------------------------------------------------ transaction handles

Handles == 1..MaxHandles

\* No handle: get_current_transaction() returning None, a frame that began nothing.
NoTx == 0

\* A handle the manager has not handed out yet.  inner is SeaOrmTransaction.inner
\* ("Some" | "None"); dbFinal counts the calls that reached the underlying
\* DatabaseTransaction (inner.commit() / inner.rollback()); commits and rollbacks
\* count the calls of the Transaction trait's methods; lock is the holder of the
\* tokio Mutex around the handle (<<>> when free).
Unborn == [inner |-> "unborn", dbFinal |-> 0, db |-> "-", commits |-> 0, rollbacks |-> 0, lock |-> <<>>,
           owner |-> "-"]

TxOk == "Ok"
TxInternal(msg) == "Internal: " \o msg

\* SeaOrmTransaction::commit(&mut self), with the database's answer dbOk.
\* Returns the handle afterwards and the call's result.
commit_without_take(hd, dbOk) ==
    IF hd.inner = "Some"
    THEN [h |-> [hd EXCEPT !.dbFinal = @ + 1, !.commits = @ + 1,
                           !.db = IF dbOk THEN "committed" ELSE "commit failed"],
          res |-> IF dbOk THEN TxOk ELSE TxInternal("db")]
    ELSE [h |-> [hd EXCEPT !.commits = @ + 1],
          res |-> TxInternal("already finalized")]

commit(hd, dbOk) ==
    IF hd.inner = "Some"
    THEN [h |-> [hd EXCEPT !.inner = "None", !.dbFinal = @ + 1, !.commits = @ + 1,
                           !.db = IF dbOk THEN "committed" ELSE "commit failed"],
          res |-> IF dbOk THEN TxOk ELSE TxInternal("db")]
    ELSE [h |-> [hd EXCEPT !.commits = @ + 1],
          res |-> TxInternal("already finalized")]

\* SeaOrmTransaction::rollback(&mut self)
rollback(hd, dbOk) ==
    IF hd.inner = "Some"
    THEN [h |-> [hd EXCEPT !.inner = "None", !.dbFinal = @ + 1, !.rollbacks = @ + 1,
                           !.db = IF dbOk THEN "rolled back" ELSE "rollback failed"],
          res |-> IF dbOk THEN TxOk ELSE TxInternal("db")]
    ELSE [h |-> [hd EXCEPT !.rollbacks = @ + 1], res |-> TxOk]

\* SeaOrmTransactionManager::begin: Ok(Box::new(SeaOrmTransaction { inner: Some(db_tx) }))
begin_ok == [Unborn EXCEPT !.inner = "Some"]

InitH ==
    /\ handles = [h \in Handles |-> Unborn]
    /\ nextHandle = 1
    /\ hLog = [h \in Handles |-> <<>>]

\* A caller that holds handles and calls commit and rollback on them in any order.
RECURSIVE SumLens(_)
SumLens(n) == IF n = 0 THEN 0 ELSE Len(hLog[n]) + SumLens(n - 1)

CallsMade == SumLens(MaxHandles)

DriverBegin ==
    /\ nextHandle <= MaxHandles
    /\ handles' = [handles EXCEPT ![nextHandle] = begin_ok]
    /\ nextHandle' = nextHandle + 1
    /\ UNCHANGED hLog

DriverCommit(h, dbOk) ==
    /\ handles[h].inner # "unborn"
    /\ CallsMade < MaxCalls
    /\ handles' = [handles EXCEPT ![h] = commit(handles[h], dbOk).h]
    /\ hLog' = [hLog EXCEPT ![h] = Append(@, [op |-> "commit", res |-> commit(handles[h], dbOk).res])]
    /\ UNCHANGED nextHandle

DriverRollback(h, dbOk) ==
    /\ handles[h].inner # "unborn"
    /\ CallsMade < MaxCalls
    /\ handles' = [handles EXCEPT ![h] = rollback(handles[h], dbOk).h]
    /\ hLog' = [hLog EXCEPT ![h] = Append(@, [op |-> "rollback", res |-> rollback(handles[h], dbOk).res])]
    /\ UNCHANGED nextHandle

NextHandle ==
    \/ DriverBegin
    \/ \E h \in Handles, dbOk \in BOOLEAN : DriverCommit(h, dbOk)
    \/ \E h \in Handles, dbOk \in BOOLEAN : DriverRollback(h, dbOk)

\* ------------------------------------------------ the #[transactional] boundary

Tasks == {"t1", "t2"}

\* enum Propagation
Propagations ==
    {"Required", "RequiresNew", "Supports", "Mandatory", "Nested", "Never", "NotSupported"}

\* Failure values the wrapped block itself can produce.
BodyErrors == {"E1", "E2"}

\* ACTIVE_TRANSACTION.try_with(|tx| tx.clone()).unwrap_or(None): the innermost
\* scope() value of the task, None outside every scope.
get_current_transaction_global(t) ==
    LET live == {u \in Tasks : slot[u] # <<>>}
        u == CHOOSE u \in live : TRUE
    IN IF live = {} THEN NoTx ELSE slot[u][Len(slot[u])]

get_current_transaction_from_extensions(t) ==
    IF slot[t] = <<>> THEN icpt.ext ELSE slot[t][Len(slot[t])]

get_current_transaction(t) ==
    IF slot[t] = <<>> THEN NoTx ELSE slot[t][Len(slot[t])]

\* ACTIVE_TRANSACTION.scope(Some(tx_arc.clone()), ..): entering pushes the value,
\* leaving (completion or drop) restores the one before.
scope_enter_unpublished(t, h) == [slot EXCEPT ![t] = Append(@, NoTx)]

scope_enter(t, h) == [slot EXCEPT ![t] = Append(@, h)]

scope_exit_noop(t) == slot

scope_exit(t) == [slot EXCEPT ![t] = SubSeq(@, 1, Len(@) - 1)]

\* `if options.propagation == Propagation::Required`: the one mode the generated
\* code implements; every other mode takes the else branch.
supported_with_supports(prop) == prop \in {"Required", "Supports"}

supported(prop) == prop = "Required"

\* `if let Some(_existing_tx) = get_current_transaction()`: join the ambient one.
joins_never(t) == FALSE

joins(t) == get_current_transaction(t) # NoTx

\* `match &result { Ok(_) => commit, Err(_) => rollback }`
finalize_op_always_rollback(result) == "rollback"

finalize_op_swapped(result) == IF result = TxOk THEN "rollback" ELSE "commit"

finalize_op(result) == IF result = TxOk THEN "commit" ELSE "rollback"

\* What the boundary hands back after finalizing: Err(Internal(..)) when commit
\* failed, the block's own result in every other case.
boundary_result_masked(result, op, finRes) ==
    IF finRes # TxOk \/ result # TxOk
    THEN TxInternal("Failed to " \o op \o " transaction")
    ELSE result

\* (a commit failure that is dropped like a rollback failure)
boundary_result_keeps_ok(result, op, finRes) == result

\* (a rollback failure that is propagated like a commit failure)
boundary_result_rollback_err(result, op, finRes) ==
    IF finRes # TxOk
    THEN TxInternal("Failed to " \o op \o " transaction")
    ELSE result

boundary_result(result, op, finRes) ==
    IF op = "commit" /\ finRes # TxOk
    THEN TxInternal("Failed to commit transaction")
    ELSE result

NoSub == [ret |-> "-", mode |-> "-"]

\* One invocation of a #[transactional] method.
\*   pc        enter | begin | body | lock | finalize | ret | panic
\*   mode      "-" before the dispatch, then join | new
\*   entry     get_current_transaction() when the method was called
\*   h         the handle this invocation began (NoTx: none)
\*   result    what the wrapped block returned
\*   ret       what the method returns to its caller
\*   obs       what get_current_transaction() returned to calls made by the block
\*   begins, commits, rollbacks   the calls this invocation made
\*   sub       the last nested #[transactional] call's return value and mode
\*   repo      "io" while a repository call of the block holds the handle's lock
\*             and awaits the database, "-" otherwise
NewFrame(prop, entry) ==
    [prop |-> prop, pc |-> "enter", mode |-> "-", entry |-> entry, h |-> NoTx,
     result |-> "-", ret |-> "-", obs |-> {}, begins |-> 0, commits |-> 0,
     rollbacks |-> 0, sub |-> NoSub, repo |-> "-"]

NoFrame == [pc |-> "none"]

InitTx ==
    /\ stack = [t \in Tasks |-> <<>>]
    /\ slot = [t \in Tasks |-> <<>>]
    /\ task = [t \in Tasks |-> IF t = "t1" THEN "run" ELSE "off"]
    /\ returned = [t \in Tasks |-> NoFrame]

Depth(t) == Len(stack[t])
Top(t) == stack[t][Depth(t)]
SetTop(t, f) == [stack EXCEPT ![t] = [@ EXCEPT ![Depth(t)] = f]]
Running(t, pc) == task[t] = "run" /\ Depth(t) > 0 /\ Top(t).pc = pc

\* The block of the innermost invocation is running and not inside a repository call.
InBlock(t) == Running(t, "body") /\ Top(t).repo = "-"

\* A #[transactional] method is called: by the request handler (empty stack) or
\* by the block of an enclosing #[transactional] method.
Call(t, prop) ==
    /\ task[t] = "run"
    /\ Depth(t) < MaxDepth
    /\ Depth(t) > 0 => InBlock(t)
    /\ stack' = [stack EXCEPT ![t] = Append(@, NewFrame(prop, get_current_transaction(t)))]
    /\ UNCHANGED <<slot, task, returned, hVars>>

\* options.propagation == Required, a transaction is active: run the block in place.
EnterJoin(t) ==
    /\ Running(t, "enter")
    /\ supported(Top(t).prop)
    /\ joins(t)
    /\ stack' = SetTop(t, [Top(t) EXCEPT !.pc = "body", !.mode = "join"])
    /\ UNCHANGED <<slot, task, returned, hVars>>

\* options.propagation == Required, no transaction is active: one is to be begun.
EnterNew(t) ==
    /\ Running(t, "enter")
    /\ supported(Top(t).prop)
    /\ ~joins(t)
    /\ stack' = SetTop(t, [Top(t) EXCEPT !.pc = "begin"])
    /\ UNCHANGED <<slot, task, returned, hVars>>

\* Any other propagation: panic!("Only Propagation::Required is currently
\* supported").  The task unwinds: every scope() of the task is dropped and no
\* enclosing boundary reaches its commit/rollback.
EnterPanic(t) ==
    /\ Running(t, "enter")
    /\ ~supported(Top(t).prop)
    /\ returned' = [returned EXCEPT ![t] = [Top(t) EXCEPT !.pc = "panic"]]
    /\ task' = [task EXCEPT ![t] = "panicked"]
    /\ stack' = [stack EXCEPT ![t] = <<>>]
    /\ slot' = [slot EXCEPT ![t] = <<>>]
    /\ UNCHANGED hVars

\* tx_manager.begin(options).await succeeded: Arc::new(Mutex::new(tx_box)) and the
\* block starts inside ACTIVE_TRANSACTION.scope(Some(tx_arc.clone()), ..).
BeginOk(t) ==
    /\ Running(t, "begin")
    /\ nextHandle <= MaxHandles
    /\ handles' = [handles EXCEPT ![nextHandle] = [begin_ok EXCEPT !.owner = t]]
    /\ nextHandle' = nextHandle + 1
    /\ slot' = scope_enter(t, nextHandle)
    /\ stack' = SetTop(t, [Top(t) EXCEPT !.pc = "body", !.mode = "new",
                                         !.h = nextHandle, !.begins = @ + 1])
    /\ UNCHANGED <<task, returned>>

\* `.map_err(|e| MeshestraError::Internal(e.to_string()))?` on the manager's error.
map_begin_err_swallowed(e) == TxOk

map_begin_err(e) == TxInternal(e)

\* tx_manager.begin(options).await failed: the mapped error is returned by `?`.
BeginErr(t) ==
    /\ Running(t, "begin")
    /\ stack' = SetTop(t, [Top(t) EXCEPT !.pc = "ret", !.begins = @ + 1,
                                         !.ret = map_begin_err("begin")])
    /\ UNCHANGED <<slot, task, returned, hVars>>

\* The block (or a collaborator it calls, such as a repository) reads the slot.
Read(t) ==
    /\ InBlock(t)
    /\ stack' = SetTop(t, [Top(t) EXCEPT !.obs = @ \cup {get_current_transaction(t)}])
    /\ UNCHANGED <<slot, task, returned, hVars>>

\* The holder id of the MutexGuard a repository call at depth d of task t takes.
RepoGuard(t, d) == <<t, d, "save">>

\* UserRepositoryImpl::save (find_by_id, find_all alike) called by the block with
\* a transaction active: `get_current_transaction()` is Some, `tx_arc.lock().await`
\* is taken and, inner being Some, `active_model.insert(inner_tx).await` starts
\* with the guard held.  (With no transaction active the plain connection is
\* used and nothing modelled here changes.)
RepoSaveLock(t) ==
    /\ InBlock(t)
    /\ get_current_transaction(t) # NoTx
    /\ handles[get_current_transaction(t)].lock = <<>>
    /\ handles[get_current_transaction(t)].inner = "Some"
    /\ handles' = [handles EXCEPT ![get_current_transaction(t)].lock = RepoGuard(t, Depth(t))]
    /\ stack' = SetTop(t, [Top(t) EXCEPT !.repo = "io",
                                         !.obs = @ \cup {get_current_transaction(t)}])
    /\ UNCHANGED <<slot, task, returned, nextHandle>>

\* `guard` is a local of save: it is dropped when save returns, which unlocks
\* the Mutex it was taken from.
drop_guard_forgotten(guard) == handles

drop_guard(guard) ==
    [h \in Handles |->
        IF handles[h].lock = guard THEN [handles[h] EXCEPT !.lock = <<>>] ELSE handles[h]]

\* The insert completes and save returns: the guard is dropped.
RepoSaveDone(t) ==
    /\ Running(t, "body")
    /\ Top(t).repo = "io"
    /\ handles' = drop_guard(RepoGuard(t, Depth(t)))
    /\ stack' = SetTop(t, [Top(t) EXCEPT !.repo = "-"])
    /\ UNCHANGED <<slot, task, returned, nextHandle>>

\* The block finishes with r: success, an error of its own, or (by `?`) the error
\* a nested call returned.  For the invocation that began the transaction this
\* ends the scope() and `result` is bound.
BlockResults(f) == {TxOk} \cup BodyErrors \cup ({f.sub.ret} \ {"-", TxOk})

BlockReturn(t, r) ==
    /\ InBlock(t)
    /\ r \in BlockResults(Top(t))
    /\ IF Top(t).mode = "new"
       THEN /\ slot' = scope_exit(t)
            /\ stack' = SetTop(t, [Top(t) EXCEPT !.pc = "lock", !.result = r])
       ELSE /\ slot' = slot
            /\ stack' = SetTop(t, [Top(t) EXCEPT !.pc = "ret", !.result = r, !.ret = r])
    /\ UNCHANGED <<task, returned, hVars>>

\* The holder id of the Mutex guard taken by the invocation at depth d of task t.
Guard(t, d) == <<t, d>>

\* `let mut guard = tx_arc.lock().await;`
Lock(t) ==
    /\ Running(t, "lock")
    /\ handles[Top(t).h].lock = <<>>
    /\ handles' = [handles EXCEPT ![Top(t).h].lock = Guard(t, Depth(t))]
    /\ stack' = SetTop(t, [Top(t) EXCEPT !.pc = "finalize"])
    /\ UNCHANGED <<slot, task, returned, nextHandle>>

\* guard.commit().await or guard.rollback().await, then the value to return.
Finalize(t, dbOk) ==
    /\ Running(t, "finalize")
    /\ LET f == Top(t)
           op == finalize_op(f.result)
           fin == IF op = "commit" THEN commit(handles[f.h], dbOk)
                                   ELSE rollback(handles[f.h], dbOk)
       IN /\ handles' = [handles EXCEPT ![f.h] = fin.h]
          /\ stack' = SetTop(t, [f EXCEPT !.pc = "ret",
                                          !.commits = IF op = "commit" THEN @ + 1 ELSE @,
                                          !.rollbacks = IF op = "rollback" THEN @ + 1 ELSE @,
                                          !.ret = boundary_result(f.result, op, fin.res)])
    /\ UNCHANGED <<slot, task, returned, nextHandle>>

\* The method returns: its guard (if any) is dropped and the caller gets ret.
Return(t) ==
    /\ Running(t, "ret")
    /\ LET f == Top(t)
           rest == SubSeq(stack[t], 1, Depth(t) - 1)
       IN /\ returned' = [returned EXCEPT ![t] = f]
          /\ stack' = [stack EXCEPT ![t] =
                 IF rest = <<>> THEN rest
                 ELSE [rest EXCEPT ![Len(rest)].sub = [ret |-> f.ret, mode |-> f.mode]]]
          /\ handles' = IF f.h # NoTx /\ handles[f.h].lock = Guard(t, Depth(t))
                        THEN [handles EXCEPT ![f.h].lock = <<>>]
                        ELSE handles
    /\ UNCHANGED <<slot, task, nextHandle>>

\* The guards task t holds: those of its boundaries and of its repository calls.
GuardsOf(t) == {Guard(t, d) : d \in 1..Depth(t)} \cup {RepoGuard(t, d) : d \in 1..Depth(t)}

\* The invocation of task t that owns the open transaction: the outermost one
\* that began a handle, the outermost one when none did.
Owner(t) ==
    LET began == {i \in 1..Depth(t) : stack[t][i].h # NoTx}
    IN IF began = {} THEN stack[t][1]
       ELSE stack[t][CHOOSE i \in began : \A j \in began : i <= j]

\* The task's future is dropped while it is suspended at an await: in begin, in
\* the block (a repository call included), in lock() or in commit/rollback.
\* Dropping runs destructors only: the scope() guards restore the slot, the
\* MutexGuards are released, tx_arc is dropped; no generated code runs, so no
\* commit and no rollback is called.
Cancel(t) ==
    /\ task[t] = "run"
    /\ Depth(t) > 0
    /\ Top(t).pc \in {"begin", "body", "lock", "finalize"}
    /\ returned' = [returned EXCEPT ![t] = [Owner(t) EXCEPT !.pc = "cancelled"]]
    /\ task' = [task EXCEPT ![t] = "cancelled"]
    /\ stack' = [stack EXCEPT ![t] = <<>>]
    /\ slot' = [slot EXCEPT ![t] = <<>>]
    /\ handles' = [h \in Handles |->
                      IF handles[h].lock \in GuardsOf(t)
                      THEN [handles[h] EXCEPT !.lock = <<>>] ELSE handles[h]]
    /\ UNCHANGED nextHandle

NextTx ==
    \/ \E t \in Tasks, prop \in Propagations : Call(t, prop)
    \/ \E t \in Tasks : EnterJoin(t)
    \/ \E t \in Tasks : EnterNew(t)
    \/ \E t \in Tasks : EnterPanic(t)
    \/ \E t \in Tasks : BeginOk(t)
    \/ \E t \in Tasks : BeginErr(t)
    \/ \E t \in Tasks : Read(t)
    \/ \E t \in Tasks : RepoSaveLock(t)
    \/ \E t \in Tasks : RepoSaveDone(t)
    \/ \E t \in Tasks : Cancel(t)
    \/ \E t \in Tasks, r \in {TxOk} \cup BodyErrors \cup {TxInternal("begin"), TxInternal("Failed to commit transaction")} :
          BlockReturn(t, r)
    \/ \E t \in Tasks : Lock(t)
    \/ \E t \in Tasks, dbOk \in BOOLEAN : Finalize(t, dbOk)
    \/ \E t \in Tasks : Return(t)

\* ------------------------------------------------- TransactionalInterceptor

\* What the downstream handler (next.run(request).await) can produce: a response
\* with a status code, or an error.
Statuses == {100, 200, 302, 404, 500}
Response(status) == [kind |-> "Ok", status |-> status]
HandlerErr(e) == [kind |-> "Err", err |-> e]
HandlerResults == {Response(st) : st \in Statuses} \cup {HandlerErr(e) : e \in BodyErrors}

\* StatusCode::is_success / is_server_error
is_success(status) == 200 <= status /\ status <= 299
is_server_error(status) == 500 <= status /\ status <= 599

\* `match result` of intercept: which finalize call is made.
intercept_op_success_only(result) ==
    IF result.kind = "Ok" /\ is_success(result.status) THEN "commit" ELSE "rollback"

intercept_op(result) ==
    IF result.kind = "Ok"
    THEN IF is_success(result.status)
         THEN "commit"
         ELSE IF is_server_error(result.status) THEN "rollback" ELSE "commit"
    ELSE "rollback"

\* What intercept returns: every finalize call ends in `.map_err(..)?`, so a
\* failed commit or rollback is returned in place of the handler's outcome.
intercept_result(result, finRes) ==
    IF finRes # TxOk THEN HandlerErr(finRes) ELSE result

NoResult == [kind |-> "-"]

\* pc: idle | begin | handler | lock | finalize | done.  ext is the
\* ActiveTransaction placed in the request extensions; ran tells whether the
\* downstream handler was invoked.
IdleRequest ==
    [pc |-> "idle", h |-> NoTx, ext |-> NoTx, ran |-> FALSE, result |-> NoResult,
     ret |-> NoResult, commits |-> 0, rollbacks |-> 0]

InitInterceptor == icpt = IdleRequest

\* The holder id of the interceptor's MutexGuard.
InterceptorGuard == <<"interceptor">>

\* A request reaches TransactionalInterceptor::intercept.
Intercept ==
    /\ icpt.pc \in {"idle", "done"}
    /\ icpt' = [IdleRequest EXCEPT !.pc = "begin"]
    /\ UNCHANGED <<hVars>>

\* self.manager.begin(TransactionOptions::default()).await succeeded; the handle
\* is shared with the request extensions.
InterceptBeginOk ==
    /\ icpt.pc = "begin"
    /\ nextHandle <= MaxHandles
    /\ handles' = [handles EXCEPT ![nextHandle] = begin_ok]
    /\ nextHandle' = nextHandle + 1
    /\ icpt' = [icpt EXCEPT !.pc = "handler", !.h = nextHandle, !.ext = nextHandle]

\* begin failed: `.map_err(..)?` returns before the handler is run.
InterceptBeginErr ==
    /\ icpt.pc = "begin"
    /\ icpt' = [icpt EXCEPT !.pc = "done", !.ret = HandlerErr(TxInternal("db"))]
    /\ UNCHANGED <<hVars>>

\* `let result = next.run(request).await;`
InterceptHandler(r) ==
    /\ icpt.pc = "handler"
    /\ icpt' = [icpt EXCEPT !.pc = "lock", !.ran = TRUE, !.result = r]
    /\ UNCHANGED <<hVars>>

\* `let mut tx_guard = shared_tx.lock().await;`
InterceptLock ==
    /\ icpt.pc = "lock"
    /\ handles[icpt.h].lock = <<>>
    /\ handles' = [handles EXCEPT ![icpt.h].lock = InterceptorGuard]
    /\ icpt' = [icpt EXCEPT !.pc = "finalize"]
    /\ UNCHANGED nextHandle

\* The commit or rollback call and the return (the guard is dropped).
InterceptFinalize(dbOk) ==
    /\ icpt.pc = "finalize"
    /\ LET op == intercept_op(icpt.result)
           fin == IF op = "commit" THEN commit(handles[icpt.h], dbOk)
                                   ELSE rollback(handles[icpt.h], dbOk)
       IN /\ handles' = [handles EXCEPT ![icpt.h] = [fin.h EXCEPT !.lock = <<>>]]
          /\ icpt' = [icpt EXCEPT !.pc = "done",
                                  !.commits = IF op = "commit" THEN @ + 1 ELSE @,
                                  !.rollbacks = IF op = "rollback" THEN @ + 1 ELSE @,
                                  !.ret = intercept_result(icpt.result, fin.res)]
    /\ UNCHANGED nextHandle

NextInterceptor ==
    \/ Intercept
    \/ InterceptBeginOk
    \/ InterceptBeginErr
    \/ \E r \in HandlerResults : InterceptHandler(r)
    \/ InterceptLock
    \/ \E dbOk \in BOOLEAN : InterceptFinalize(dbOk)

\* The handler that runs under the interceptor (next.run(request).await) is
\* polled on the request's task; the #[transactional] methods it calls run there.
RequestTask == "t1"

\* The handler, or a block it is in, calls a Required #[transactional] method.
HandlerCalls ==
    /\ icpt.pc = "handler"
    /\ Call(RequestTask, "Required")
    /\ UNCHANGED icpt

\* One step of the boundary the handler is in.
HandlerBoundary(step) ==
    /\ icpt.pc = "handler"
    /\ step
    /\ UNCHANGED icpt

\* The handler returns to the interceptor: every method it called has returned.
HandlerReturns(r) ==
    /\ Depth(RequestTask) = 0
    /\ InterceptHandler(r)
    /\ UNCHANGED txVars

NextRequest ==
    \/ Intercept /\ UNCHANGED txVars
    \/ InterceptBeginOk /\ UNCHANGED txVars
    \/ InterceptBeginErr /\ UNCHANGED txVars
    \/ HandlerCalls
    \/ HandlerBoundary(EnterJoin(RequestTask))
    \/ HandlerBoundary(EnterNew(RequestTask))
    \/ HandlerBoundary(BeginOk(RequestTask))
    \/ HandlerBoundary(BeginErr(RequestTask))
    \/ HandlerBoundary(Read(RequestTask))
    \/ \E r \in {TxOk} \cup BodyErrors : HandlerBoundary(BlockReturn(RequestTask, r))
    \/ HandlerBoundary(Lock(RequestTask))
    \/ \E dbOk \in BOOLEAN : HandlerBoundary(Finalize(RequestTask, dbOk))
    \/ HandlerBoundary(Return(RequestTask))
    \/ \E r \in HandlerResults : HandlerReturns(r)
    \/ InterceptLock /\ UNCHANGED txVars
    \/ \E dbOk \in BOOLEAN : InterceptFinalize(dbOk) /\ UNCHANGED txVars

\* ------------------------------------------------------------------ Lazy<T>

\* The service type the Lazy<T> handle stands for.
LazyType == "A"

\* Lazy::new: instance = Mutex::new(None), once = Once::new().  once is
\* "new" | "running" | "done" | "poisoned"; instance 0 is None; resolves counts
\* the container.resolve::<T>() calls made through the handle and seen collects
\* the instances dereferences have returned.
NewLazy == [once |-> "new", instance |-> 0, resolves |-> 0, seen |-> {}]

\* A thread outside Lazy::deref.  got is the instance in hand, first tells that
\* this dereference ran the initializer, waited that it blocked in call_once,
\* regAt whether T was registered when the dereference started.
IdleDeref == [pc |-> "idle", got |-> 0, first |-> FALSE, waited |-> FALSE, regAt |-> FALSE]

InitLazy ==
    /\ lazy = NewLazy
    /\ lzTask = [t \in Tasks |-> IdleDeref]

\* Once::call_once runs the closure for the one caller that finds the Once new.
call_once_runs_unsynchronized(once) == once \in {"new", "running"}

call_once_runs(once) == once = "new"

\* A thread dereferences the handle: deref calls self.init().
LazyDeref(t) ==
    /\ lzTask[t].pc \in {"idle", "done"}
    /\ lzTask' = [lzTask EXCEPT ![t] =
                     [IdleDeref EXCEPT !.pc = "init", !.regAt = (services[LazyType] # None)]]
    /\ UNCHANGED <<lazy, diVars>>

\* self.once.call_once(..): run the closure, block while another thread runs
\* it, pass when it has completed, panic when it is poisoned.
LazyCallOnce(t) ==
    /\ lzTask[t].pc = "init"
    /\ IF call_once_runs(lazy.once)
       THEN /\ lazy' = [lazy EXCEPT !.once = "running"]
            /\ lzTask' = [lzTask EXCEPT ![t].pc = "closure", ![t].first = TRUE]
       ELSE /\ lzTask' = [lzTask EXCEPT
                  ![t].pc = CASE lazy.once = "running" -> "wait"
                              [] lazy.once = "done" -> "read"
                              [] OTHER -> "panicked",
                  ![t].waited = (lazy.once = "running")]
            /\ UNCHANGED lazy
    /\ UNCHANGED diVars

\* A thread blocked in call_once resumes once the initializer has finished:
\* normally, or by panicking because the initializer panicked.
LazyWake(t) ==
    /\ lzTask[t].pc = "wait"
    /\ lazy.once \in {"done", "poisoned"}
    /\ lzTask' = [lzTask EXCEPT ![t].pc = IF lazy.once = "done" THEN "read" ELSE "panicked"]
    /\ UNCHANGED <<lazy, diVars>>

\* The closure: self.container.resolve::<T>().unwrap_or_else(|e| panic!(..)).
\* A panic inside call_once poisons the Once.
LazyResolve(t) ==
    /\ lzTask[t].pc = "closure"
    /\ LET r == resolve(LazyType)
       IN IF r.kind = "Ok"
          THEN /\ lazy' = [lazy EXCEPT !.resolves = @ + 1]
               /\ lzTask' = [lzTask EXCEPT ![t].pc = "store", ![t].got = r.inst]
          ELSE /\ lazy' = [lazy EXCEPT !.resolves = @ + 1, !.once = "poisoned"]
               /\ lzTask' = [lzTask EXCEPT ![t].pc = "panicked"]
    /\ UNCHANGED diVars

\* `*self.instance.lock() = Some(resolved)`, and call_once completes.
LazyStore(t) ==
    /\ lzTask[t].pc = "store"
    /\ lazy' = [lazy EXCEPT !.instance = lzTask[t].got, !.once = "done"]
    /\ lzTask' = [lzTask EXCEPT ![t].pc = "read", ![t].got = 0]
    /\ UNCHANGED diVars

\* `&*Arc::as_ptr(guard.as_ref().unwrap())`: the reference deref returns.
LazyRead(t) ==
    /\ lzTask[t].pc = "read"
    /\ IF lazy.instance = 0
       THEN /\ lzTask' = [lzTask EXCEPT ![t].pc = "panicked"]
            /\ UNCHANGED lazy
       ELSE /\ lzTask' = [lzTask EXCEPT ![t].pc = "done", ![t].got = lazy.instance]
            /\ lazy' = [lazy EXCEPT !.seen = @ \cup {lazy.instance}]
    /\ UNCHANGED diVars

\* T is registered (again) in the container the handle holds.
LazyRegister ==
    /\ register(LazyType)
    /\ UNCHANGED lazyVars

NextLazy ==
    \/ \E t \in Tasks : LazyDeref(t)
    \/ \E t \in Tasks : LazyCallOnce(t)
    \/ \E t \in Tasks : LazyWake(t)
    \/ \E t \in Tasks : LazyResolve(t)
    \/ \E t \in Tasks : LazyStore(t)
    \/ \E t \in Tasks : LazyRead(t)
    \/ LazyRegister

\* ------------------------------------------------------- #[module] register

\* One field of a #[derive(Injectable)] struct: Arc<T> ("arc", resolved with
\* resolve), Arc<dyn Trait> ("dyn", resolved with resolve_trait) or Lazy<T>
\* ("lazy", built with Lazy::new and not resolved).
Field(kind, ty) == [kind |-> kind, ty |-> ty]

\* One entry of a declaration: the struct ty with its fields, provided as the
\* capability trait when the entry is written `Impl as dyn Trait` ("-" if not).
Item(ty, deps, trait) == [ty |-> ty, deps |-> deps, trait |-> trait]

\* The entries the declarations are drawn from: a struct without fields, one
\* with an Arc or a Lazy field of the other type, "A" provided as "P", and "B"
\* with an Arc<dyn P> field.
Other(ty) == CHOOSE o \in Types : o # ty

PlainItems ==
    UNION {{Item(ty, <<>>, "-"),
            Item(ty, <<Field("arc", Other(ty))>>, "-"),
            Item(ty, <<Field("lazy", Other(ty))>>, "-")} : ty \in Types}
        \cup {Item("B", <<Field("dyn", "P")>>, "-")}

ProviderItems == PlainItems \cup {Item("A", <<>>, "P")}

SeqsUpTo(S, n) == UNION {[1..k -> S] : k \in 0..n}

\* #[module(imports = [..], providers = [..], controllers = [..])].  An import
\* stands for an imported module that declares the one provider given.
Declarations ==
    {d \in [imports : SeqsUpTo(ProviderItems, 1),
            providers : SeqsUpTo(ProviderItems, MaxProviders),
            controllers : SeqsUpTo(PlainItems, 1)] :
        Len(d.imports) + Len(d.providers) + Len(d.controllers) <= MaxInst}

\* The statements of the generated register(): #(#import_registrations)*
\* #(#provider_registrations)* #(#controller_registrations)*
registration_order(d) == d.imports \o d.providers \o d.controllers

\* What a field initializer of the generated inject() evaluates to.
inject_field(f) ==
    CASE f.kind = "arc" -> resolve(f.ty)
      [] f.kind = "dyn" -> resolve_trait(f.ty)
      [] OTHER -> [kind |-> "Ok"]

\* Injectable::inject(container): the fields in order, each ending in `?`.
inject_unchecked(item) == [kind |-> "Ok"]

inject(item) ==
    LET failing == {i \in 1..Len(item.deps) : inject_field(item.deps[i]).kind # "Ok"}
    IN IF failing = {} THEN [kind |-> "Ok"]
       ELSE inject_field(item.deps[CHOOSE i \in failing : \A j \in failing : i <= j])

NoModule == [phase |-> "idle", decl |-> [imports |-> <<>>, providers |-> <<>>, controllers |-> <<>>],
             order |-> <<>>, pos |-> 0, built |-> <<>>, result |-> [kind |-> "-"]]

InitModule == modReg = NoModule

\* Module::create_container(): Container::new() and Self::register(&mut container).
ModuleRegister ==
    /\ modReg.phase = "idle"
    /\ \E d \in Declarations :
           modReg' = [modReg EXCEPT !.phase = "run", !.decl = d,
                                    !.order = registration_order(d), !.pos = 1]
    /\ UNCHANGED diVars

\* The next statement of register(): inject(container)? and, when it succeeded,
\* container.register(instance) and for `Impl as dyn Trait` register_trait too.
ModuleConstruct ==
    /\ modReg.phase = "run"
    /\ modReg.pos <= Len(modReg.order)
    /\ LET item == modReg.order[modReg.pos]
           r == inject(item)
       IN IF r.kind # "Ok"
          THEN /\ modReg' = [modReg EXCEPT !.phase = "failed", !.result = r]
               /\ UNCHANGED diVars
          ELSE /\ modReg' = [modReg EXCEPT !.pos = @ + 1, !.built = Append(@, item.ty)]
               /\ services' = services_insert(item.ty, ServiceEntry(item.ty, nextInst))
               /\ nextInst' = nextInst + 1
               /\ lastReg' = [lastReg EXCEPT ![item.ty] = nextInst]
               /\ IF item.trait = "-"
                  THEN /\ lastCall' = [op |-> "register", ty |-> item.ty, inst |-> nextInst]
                       /\ UNCHANGED <<trait_mappings, casters, lastBind>>
                  ELSE /\ trait_mappings' = register_trait_maps(item.trait, item.ty)[1]
                       /\ casters' = register_trait_maps(item.trait, item.ty)[2]
                       /\ lastBind' = [lastBind EXCEPT ![item.trait] =
                              [impl |-> item.ty, order |-> "register_first",
                               prev |-> lastBind[item.trait].impl]]
                       /\ lastCall' = [op |-> "register_trait", trait |-> item.trait,
                                       impl |-> item.ty]

\* Every statement ran: Ok(()).
ModuleDone ==
    /\ modReg.phase = "run"
    /\ modReg.pos > Len(modReg.order)
    /\ modReg' = [modReg EXCEPT !.phase = "ok", !.result = [kind |-> "Ok"]]
    /\ UNCHANGED diVars

NextModule ==
    \/ ModuleRegister
    \/ ModuleConstruct
    \/ ModuleDone

\* ---------------------------------------------------------------- lifecycle

\* Names under which services are registered for lifecycle hooks.
Services == {"s1", "s2"}

\* The four hook lists of LifecycleManager, named by their phase.
Phases == {"init", "bootstrap", "shutdown", "destroy"}

Reverse(s) == [i \in 1..Len(s) |-> s[Len(s) + 1 - i]]

\* LifecycleError values and the results of build() and shutdown().
InitializationFailed(msg) == [kind |-> "InitializationFailed", what |-> msg]
Timeout(phase) == [kind |-> "Timeout", what |-> phase]
HookFailed(service) == [kind |-> "HookFailed", what |-> service]
LifeOk == [kind |-> "Ok", what |-> "-"]
NoLifeResult == [kind |-> "-", what |-> "-"]

\* ApplicationBuilder::new().  pc is "builder" while the builder is configured,
\* the phase whose hooks are being called afterwards, "running" once build()
\* returned the Application, "failed" when build() returned an error, "stopped"
\* when Application::shutdown() returned.  log lists the hook invocations in
\* the order they were made, errors counts the hook errors that were only
\* logged, failedAt is the phase whose hook error was returned.
NewBuilder ==
    [pc |-> "builder", container |-> FALSE, init_timeout |-> FALSE, bootstrap_timeout |-> FALSE,
     hooks |-> [p \in Phases |-> <<>>], regs |-> 0, pos |-> 0, log |-> <<>>,
     errors |-> 0, failedAt |-> "-", result |-> NoLifeResult]

InitLifecycle == life = NewBuilder

\* The hook lists one ApplicationBuilder method pushes to.
RegistrationPhases(method) ==
    CASE method = "register_full_lifecycle" -> Phases
      [] method = "register_lifecycle" -> {"init", "destroy"}
      [] method = "on_bootstrap" -> {"bootstrap"}
      [] method = "on_shutdown" -> {"shutdown"}

BuilderMethods == {"register_full_lifecycle", "register_lifecycle", "on_bootstrap", "on_shutdown"}

\* on_init / on_bootstrap / on_shutdown / on_destroy and the two convenience
\* methods built from them: Vec::push on each list concerned.
RegisterHooks(method, s) ==
    /\ life.pc = "builder"
    /\ life.regs < MaxHooks
    /\ life' = [life EXCEPT
           !.regs = @ + 1,
           !.hooks = [p \in Phases |->
                         IF p \in RegistrationPhases(method) THEN Append(@[p], s) ELSE @[p]]]

\* ApplicationBuilder::container, init_timeout, bootstrap_timeout.
BuilderContainer ==
    /\ life.pc = "builder" /\ ~life.container
    /\ life' = [life EXCEPT !.container = TRUE]

BuilderInitTimeout ==
    /\ life.pc = "builder" /\ ~life.init_timeout
    /\ life' = [life EXCEPT !.init_timeout = TRUE]

BuilderBootstrapTimeout ==
    /\ life.pc = "builder" /\ ~life.bootstrap_timeout
    /\ life' = [life EXCEPT !.bootstrap_timeout = TRUE]

\* The order in which a call_* function walks its list: `for hook in &hooks`,
\* and `for hook in self.on_destroy_hooks.iter().rev()` in call_module_destroy.
call_order_forward(p) == life.hooks[p]

call_order(p) == IF p = "destroy" THEN Reverse(life.hooks[p]) ELSE life.hooks[p]

\* What a call_* function does with a hook's error: `.map_err(..)?` in
\* call_module_init and call_application_bootstrap, `if let Err(e) = ..` with a
\* log line in call_application_shutdown and call_module_destroy.
returns_hook_error_never(p) == FALSE

returns_hook_error_always(p) == TRUE

returns_hook_error(p) == p \in {"init", "bootstrap"}

\* The statements of build() and of Application::shutdown() in order: build()
\* calls call_module_init, then call_application_bootstrap, then returns the
\* Application; shutdown() calls call_application_shutdown, then
\* call_module_destroy, then returns Ok(()).
phase_after_bootstrap_first(p) ==
    CASE p = "builder" -> "bootstrap"
      [] p = "bootstrap" -> "init"
      [] p = "init" -> "running"
      [] p = "running" -> "shutdown"
      [] p = "shutdown" -> "destroy"
      [] p = "destroy" -> "stopped"

phase_after(p) ==
    CASE p = "builder" -> "init"
      [] p = "init" -> "bootstrap"
      [] p = "bootstrap" -> "running"
      [] p = "running" -> "shutdown"
      [] p = "shutdown" -> "destroy"
      [] p = "destroy" -> "stopped"

\* ApplicationBuilder::build(): the container check, then call_module_init.
Build ==
    /\ life.pc = "builder"
    /\ life' = IF life.container
               THEN [life EXCEPT !.pc = phase_after("builder"), !.pos = 1]
               ELSE [life EXCEPT !.pc = "failed",
                                 !.result = InitializationFailed("Container not provided")]

\* One iteration of the loop of the call_* function of phase p: the hook is
\* invoked and succeeds (ok) or returns an error.
CallHook(p, ok) ==
    /\ life.pc = p
    /\ life.pos <= Len(call_order(p))
    /\ LET name == call_order(p)[life.pos]
       IN life' =
            IF ok
            THEN [life EXCEPT !.log = Append(@, <<p, name>>), !.pos = @ + 1]
            ELSE IF returns_hook_error(p)
                 THEN [life EXCEPT !.log = Append(@, <<p, name>>), !.pc = "failed",
                                   !.failedAt = p, !.result = HookFailed(name)]
                 ELSE [life EXCEPT !.log = Append(@, <<p, name>>), !.pos = @ + 1,
                                   !.errors = @ + 1]

call_module_init(ok) == CallHook("init", ok)
call_application_bootstrap(ok) == CallHook("bootstrap", ok)
call_application_shutdown(ok) == CallHook("shutdown", ok)
call_module_destroy(ok) == CallHook("destroy", ok)

\* The loop of phase p is over: the call_* function returns Ok(()) and its
\* caller goes on; after bootstrap build() returns the Application, after
\* destroy shutdown() returns Ok(()).
CallReturns(p) ==
    /\ life.pc = p
    /\ life.pos > Len(call_order(p))
    /\ life' = [life EXCEPT !.pc = phase_after(p), !.pos = 1,
                            !.result = IF phase_after(p) \in {"running", "stopped"}
                                       THEN LifeOk ELSE @]

\* call_module_init_with_timeout / call_application_bootstrap_with_timeout: the
\* timer fires while the loop is suspended before a hook; the loop is dropped.
CallTimesOut(p) ==
    /\ life.pc = p
    /\ \/ (p = "init" /\ life.init_timeout)
       \/ (p = "bootstrap" /\ life.bootstrap_timeout)
    /\ life.pos <= Len(call_order(p))
    /\ life' = [life EXCEPT !.pc = "failed",
                            !.result = Timeout(IF p = "init" THEN "OnModuleInit"
                                                             ELSE "OnApplicationBootstrap")]

\* Application::shutdown() is called on the running application.
Shutdown ==
    /\ life.pc = "running"
    /\ life' = [life EXCEPT !.pc = phase_after("running"), !.pos = 1, !.result = NoLifeResult]

NextLifecycle ==
    \/ \E m \in BuilderMethods, s \in Services : RegisterHooks(m, s)
    \/ BuilderContainer
    \/ BuilderInitTimeout
    \/ BuilderBootstrapTimeout
    \/ Build
    \/ \E ok \in BOOLEAN : call_module_init(ok)
    \/ \E ok \in BOOLEAN : call_application_bootstrap(ok)
    \/ \E ok \in BOOLEAN : call_application_shutdown(ok)
    \/ \E ok \in BOOLEAN : call_module_destroy(ok)
    \/ \E p \in Phases : CallReturns(p)
    \/ \E p \in {"init", "bootstrap"} : CallTimesOut(p)
    \/ Shutdown

\* --------------------------------------------------------- SagaOrchestrator

\* Steps that can be added; the same step may be added more than once.
StepNames == {"a", "b"}

\* SagaError values a step can return from execute or compensate, and the text
\* `to_string()` gives for them (#[error("Saga execution failed: {0}")], ..).
ExecutionFailed(msg) == [kind |-> "ExecutionFailed", msg |-> msg]
CompensationFailed(msg) == [kind |-> "CompensationFailed", msg |-> msg]
StepErrors == {ExecutionFailed(<<"x">>), CompensationFailed(<<"y">>)}
to_string(e) ==
    <<IF e.kind = "ExecutionFailed" THEN "Saga execution failed: "
                                    ELSE "Saga compensation failed: ">> \o e.msg
SagaOk == [kind |-> "Ok", msg |-> <<>>]
NoSagaResult == [kind |-> "-", msg |-> <<>>]

\* `for &executed_index in executed_steps.iter().rev()`
compensation_order_forward(executed_steps) == executed_steps

compensation_order(executed_steps) == Reverse(executed_steps)

\* `if let Err(comp_err) = executed_step.compensate(..).await { .. return Err(..) }`
compensate_returns_never(res) == FALSE

compensate_returns(res) == res # SagaOk

\* pc: new | step | compensate | done.  index is the position of the for loop
\* over self.steps (0-based), todo what is left of the compensation loop, e the
\* error of the failed step; log records every execute and compensate call
\* with what it returned.
NewSaga ==
    [pc |-> "new", steps |-> <<>>, index |-> 0, executed_steps |-> <<>>,
     todo |-> <<>>, e |-> NoSagaResult, log |-> <<>>, result |-> NoSagaResult]

InitSaga == saga = NewSaga

\* SagaOrchestrator::add_step
add_step(name) ==
    /\ saga.pc = "new"
    /\ Len(saga.steps) < MaxSteps
    /\ saga' = [saga EXCEPT !.steps = Append(@, name)]

\* SagaOrchestrator::execute is called: `let mut executed_steps = Vec::new();`
SagaExecute ==
    /\ saga.pc \in {"new", "done"}
    /\ saga' = [NewSaga EXCEPT !.pc = "step", !.steps = saga.steps]

\* `match step.execute(&mut context).await` for the step at index.
SagaStepExecute(res) ==
    /\ saga.pc = "step"
    /\ saga.index < Len(saga.steps)
    /\ LET logged == Append(saga.log, [op |-> "execute", index |-> saga.index, res |-> res])
       IN saga' =
              IF res = SagaOk
              THEN [saga EXCEPT !.log = logged,
                                !.executed_steps = Append(@, saga.index),
                                !.index = @ + 1]
              ELSE [saga EXCEPT !.log = logged, !.e = res, !.pc = "compensate",
                                !.todo = compensation_order(saga.executed_steps)]

\* The for loop over the steps is over: `Ok(context)`.
SagaReturnsOk ==
    /\ saga.pc = "step"
    /\ saga.index = Len(saga.steps)
    /\ saga' = [saga EXCEPT !.pc = "done", !.result = SagaOk]

\* `executed_step.compensate(&mut context).await` for the next executed index.
SagaCompensate(res) ==
    /\ saga.pc = "compensate"
    /\ saga.todo # <<>>
    /\ LET logged == Append(saga.log, [op |-> "compensate", index |-> Head(saga.todo), res |-> res])
       IN saga' =
              IF compensate_returns(res)
              THEN [saga EXCEPT !.log = logged, !.pc = "done",
                                !.result = CompensationFailed(to_string(res))]
              ELSE [saga EXCEPT !.log = logged, !.todo = Tail(@)]

\* The compensation loop is over: `return Err(e);`
SagaReturnsErr ==
    /\ saga.pc = "compensate"
    /\ saga.todo = <<>>
    /\ saga' = [saga EXCEPT !.pc = "done", !.result = saga.e]

NextSaga ==
    \/ \E name \in StepNames : add_step(name)
    \/ SagaExecute
    \/ \E res \in {SagaOk} \cup StepErrors : SagaStepExecute(res)
    \/ SagaReturnsOk
    \/ \E res \in {SagaOk} \cup StepErrors : SagaCompensate(res)
    \/ SagaReturnsErr

\* ---------------------------------------------------- InterceptorMiddleware

\* What a Next runs when it is run: interceptors[i].intercept, or inner.call.
ToInterceptor(i) == [to |-> "interceptor", i |-> i]
ToInner == [to |-> "inner", i |-> 0]

\* What an interceptor or the inner service can return.
MwResults == {Response(200), HandlerErr("E1"), HandlerErr("E2")}

\* `for i in (0..interceptors.len()).rev()`: the indexes in wrapping order.
wrap_order_forward(n) == [k \in 1..n |-> k - 1]

wrap_order(n) == [k \in 1..n |-> n - k]

\* A Next is the list of what running it reaches, outermost first: the closure
\* of Next::new(move |req| interceptors_arc[i].intercept(req, next_chain)) owns
\* next_chain; the base Next calls the inner service.
NextNew(i, next_chain) == <<ToInterceptor(i)>> \o next_chain
BaseNext == <<ToInner>>

\* A running intercept or inner.call: next is the Next it was given and has
\* not run (Next::run takes self, so it can be run once), got what its
\* next.run(..).await returned.
MwFrame(who, next) == [who |-> who, next |-> next, got |-> NoResult]
NoNext == <<>>

\* pc: idle | wrap | run | done.  n is interceptors.len(), todo what is left
\* of the wrapping loop, stack the nested intercept/inner calls in progress;
\* log records every entry and return.
IdleMiddleware ==
    [pc |-> "idle", n |-> 0, chain |-> NoNext, todo |-> <<>>, stack |-> <<>>,
     log |-> <<>>, result |-> NoResult]

InitMiddleware == mw = IdleMiddleware

\* InterceptorMiddleware::call for a middleware with n interceptors:
\* `let mut chain = Next::new(move |req| .. inner.call(req) ..)`.
MiddlewareCall(n) ==
    /\ mw.pc \in {"idle", "done"}
    /\ mw' = [IdleMiddleware EXCEPT !.pc = "wrap", !.n = n, !.chain = BaseNext,
                                    !.todo = wrap_order(n)]

\* One iteration of the wrapping loop: `let next_chain = chain; chain = Next::new(..)`.
MiddlewareWrap ==
    /\ mw.pc = "wrap"
    /\ mw.todo # <<>>
    /\ mw' = [mw EXCEPT !.chain = NextNew(Head(mw.todo), mw.chain), !.todo = Tail(@)]

\* Running a Next: its head is entered and holds the rest.
NextRun(next) == MwFrame(Head(next), Tail(next))
Entered(who) == [ev |-> "enter", who |-> who, res |-> NoResult, got |-> NoResult]
Returned(f, res) == [ev |-> "return", who |-> f.who, res |-> res, got |-> f.got]

\* `chain.run(request).await`
MiddlewareRun ==
    /\ mw.pc = "wrap"
    /\ mw.todo = <<>>
    /\ mw' = [mw EXCEPT !.pc = "run", !.chain = NoNext,
                        !.stack = <<NextRun(mw.chain)>>,
                        !.log = Append(@, Entered(Head(mw.chain)))]

\* The running interceptor calls next.run(request).await.
InterceptorRunsNext ==
    /\ mw.pc = "run"
    /\ LET d == Len(mw.stack)
           f == mw.stack[d]
       IN /\ f.who.to = "interceptor"
          /\ f.next # NoNext
          /\ mw' = [mw EXCEPT !.stack = Append([@ EXCEPT ![d].next = NoNext], NextRun(f.next)),
                              !.log = Append(@, Entered(Head(f.next)))]

\* The running interceptor, or the inner service, returns res to whoever ran it:
\* the enclosing interceptor's next.run, or the caller of the middleware.  An
\* interceptor may return without having run its Next, which is then dropped.
MiddlewareReturn(res) ==
    /\ mw.pc = "run"
    /\ LET d == Len(mw.stack)
           f == mw.stack[d]
           logged == Append(mw.log, Returned(f, res))
       IN mw' = IF d = 1
                THEN [mw EXCEPT !.pc = "done", !.stack = <<>>, !.log = logged, !.result = res]
                ELSE [mw EXCEPT !.stack = [SubSeq(@, 1, d - 1) EXCEPT ![d - 1].got = res],
                                !.log = logged]

NextMiddleware ==
    \/ \E n \in 0..MaxInterceptors : MiddlewareCall(n)
    \/ MiddlewareWrap
    \/ MiddlewareRun
    \/ InterceptorRunsNext
    \/ \E res \in MwResults : MiddlewareReturn(res)

\* -------------------------------------------------------------- specifications

Init == InitDI /\ InitH /\ InitTx /\ InitInterceptor /\ InitLazy /\ InitModule /\ InitLifecycle /\ InitSaga /\ InitMiddleware

SpecDI == Init /\ [][NextDI /\ UNCHANGED <<hVars, hLog, txVars, icpt, lazyVars, modReg, life, saga, mw>>]_vars

SpecHandle == Init /\ [][NextHandle /\ UNCHANGED <<diVars, txVars, icpt, lazyVars, modReg, life, saga, mw>>]_vars

SpecTx == Init /\ [][NextTx /\ UNCHANGED <<diVars, hLog, icpt, lazyVars, modReg, life, saga, mw>>]_vars

SpecInterceptor == Init /\ [][NextInterceptor /\ UNCHANGED <<diVars, hLog, txVars, lazyVars, modReg, life, saga, mw>>]_vars

SpecLazy == Init /\ [][NextLazy /\ UNCHANGED <<hVars, hLog, txVars, icpt, modReg, life, saga, mw>>]_vars

SpecModule == Init /\ [][NextModule /\ UNCHANGED <<hVars, hLog, txVars, icpt, lazyVars, life, saga, mw>>]_vars

SpecLifecycle ==
    Init /\ [][NextLifecycle /\ UNCHANGED <<diVars, hVars, hLog, txVars, icpt, lazyVars, modReg, saga, mw>>]_vars

SpecSaga ==
    Init /\ [][NextSaga /\ UNCHANGED <<diVars, hVars, hLog, txVars, icpt, lazyVars, modReg, life, mw>>]_vars

SpecMiddleware ==
    Init /\ [][NextMiddleware /\ UNCHANGED <<diVars, hVars, hLog, txVars, icpt, lazyVars, modReg, life, saga>>]_vars

\* One task calls Required #[transactional] methods whose blocks call the
\* repository, and every await in them completes: begin, the repository's
\* insert, the block at each depth, the fair tokio Mutex once it is free,
\* commit and rollback.
NextBoundary ==
    \/ Call(RequestTask, "Required")
    \/ EnterJoin(RequestTask)
    \/ EnterNew(RequestTask)
    \/ BeginOk(RequestTask)
    \/ BeginErr(RequestTask)
    \/ RepoSaveLock(RequestTask)
    \/ RepoSaveDone(RequestTask)
    \/ \E r \in {TxOk, "E1"} : BlockReturn(RequestTask, r)
    \/ Lock(RequestTask)
    \/ \E dbOk \in BOOLEAN : Finalize(RequestTask, dbOk)
    \/ Return(RequestTask)

BlockReturnsAt(d) ==
    Depth(RequestTask) = d /\ \E r \in {TxOk, "E1"} : BlockReturn(RequestTask, r)

BoundaryFairness ==
    /\ WF_<<stack, slot, task, returned, handles, nextHandle>>(EnterJoin(RequestTask) \/ EnterNew(RequestTask))
    /\ WF_<<stack, slot, task, returned, handles, nextHandle>>(BeginOk(RequestTask) \/ BeginErr(RequestTask))
    /\ WF_<<stack, slot, task, returned, handles, nextHandle>>(RepoSaveDone(RequestTask))
    /\ \A d \in 1..MaxDepth : SF_<<stack, slot, task, returned, handles, nextHandle>>(BlockReturnsAt(d))
    /\ WF_<<stack, slot, task, returned, handles, nextHandle>>(Lock(RequestTask))
    /\ WF_<<stack, slot, task, returned, handles, nextHandle>>(\E dbOk \in BOOLEAN : Finalize(RequestTask, dbOk))
    /\ WF_<<stack, slot, task, returned, handles, nextHandle>>(Return(RequestTask))

SpecBoundaryLive ==
    /\ Init
    /\ [][NextBoundary /\ UNCHANGED <<diVars, hLog, icpt, lazyVars, modReg, life, saga, mw>>]_vars
    /\ BoundaryFairness

\* One request passes through TransactionalInterceptor and its handler calls
\* #[transactional] methods.
SpecRequest == Init /\ [][NextRequest /\ UNCHANGED <<diVars, hLog, lazyVars, modReg, life, saga, mw>>]_vars

\* Two request tasks run side by side, each calling #[transactional] methods
\* with propagation Required from its handler (never from inside another
\* boundary), sharing the transaction manager.
InitConc ==
    /\ InitDI /\ InitH /\ InitInterceptor /\ InitLazy /\ InitModule /\ InitLifecycle /\ InitSaga /\ InitMiddleware
    /\ stack = [t \in Tasks |-> <<>>]
    /\ slot = [t \in Tasks |-> <<>>]
    /\ task = [t \in Tasks |-> "run"]
    /\ returned = [t \in Tasks |-> NoFrame]

CallTop(t) == Depth(t) = 0 /\ Call(t, "Required")

NextConc ==
    \/ \E t \in Tasks : CallTop(t)
    \/ \E t \in Tasks : EnterNew(t)
    \/ \E t \in Tasks : BeginOk(t)
    \/ \E t \in Tasks : BeginErr(t)
    \/ \E t \in Tasks : Read(t)
    \/ \E t \in Tasks : RepoSaveLock(t)
    \/ \E t \in Tasks : RepoSaveDone(t)
    \/ \E t \in Tasks, r \in {TxOk} \cup BodyErrors : BlockReturn(t, r)
    \/ \E t \in Tasks : Lock(t)
    \/ \E t \in Tasks, dbOk \in BOOLEAN : Finalize(t, dbOk)
    \/ \E t \in Tasks : Return(t)

SpecConc == InitConc /\ [][NextConc /\ UNCHANGED <<diVars, hLog, icpt, lazyVars, modReg, life, saga, mw>>]_vars

\* -------------------------------------------------- properties of the boundary

\* Every invocation the model still knows of task t: the frames on its stack and
\* the one that returned (or panicked) last.
FramesOf(t) ==
    {stack[t][i] : i \in 1..Depth(t)} \cup (IF returned[t] = NoFrame THEN {} ELSE {returned[t]})

\* A Required boundary entered with the slot Absent whose begin succeeded.
BeganRequired(f) == f.prop = "Required" /\ f.entry = NoTx /\ f.h # NoTx

\* C1: a Required boundary entered with the slot Absent whose begin succeeded and
\* whose wrapped operation returned success calls commit on the handle it began
\* exactly once (it has done so by the time it returns, and never more than once)
\* and never calls rollback on it.
C1_CommitOnceOnSuccess ==
    \A t \in Tasks : \A f \in FramesOf(t) :
        (BeganRequired(f) /\ f.result = TxOk) =>
            /\ f.rollbacks = 0
            /\ f.commits <= 1
            /\ f.pc = "ret" => f.commits = 1

C1_Witness ==
    \E t \in Tasks :
        /\ returned[t] # NoFrame
        /\ returned[t].pc = "ret"
        /\ BeganRequired(returned[t])
        /\ returned[t].result = TxOk
        /\ returned[t].commits = 1
        /\ handles[returned[t].h].db = "committed"

\* C2: a Required boundary entered with the slot Absent whose begin succeeded and
\* whose wrapped operation returned a failure calls rollback on the handle it
\* began exactly once, never calls commit on it, and returns the very error the
\* wrapped operation produced.
C2_RollbackOnceOnFailure ==
    \A t \in Tasks : \A f \in FramesOf(t) :
        (BeganRequired(f) /\ f.result \notin {"-", TxOk}) =>
            /\ f.commits = 0
            /\ f.rollbacks <= 1
            /\ f.pc = "ret" => (f.rollbacks = 1 /\ f.ret = f.result)

C2_Witness ==
    \E t \in Tasks :
        /\ returned[t] # NoFrame
        /\ returned[t].pc = "ret"
        /\ BeganRequired(returned[t])
        /\ returned[t].result = "E1"
        /\ returned[t].rollbacks = 1
        /\ returned[t].ret = "E1"
        /\ handles[returned[t].h].db = "rollback failed"

\* C3: while a Required boundary that began a transaction is running its wrapped
\* operation, every get_current_transaction() call made in its call tree (by its
\* own block or by a block nested at any depth below it), and one made now,
\* returns the handle that boundary began: never none, never another handle.
C3_SameHandleInScope ==
    \A t \in Tasks : \A i \in 1..Depth(t) :
        (stack[t][i].prop = "Required" /\ stack[t][i].mode = "new" /\ stack[t][i].pc = "body") =>
            /\ get_current_transaction(t) = stack[t][i].h
            /\ \A j \in i..Depth(t) : stack[t][j].obs \subseteq {stack[t][i].h}

C3_Witness ==
    \E t \in Tasks : \E i \in 1..Depth(t) : \E j \in (i + 1)..Depth(t) :
        /\ stack[t][i].mode = "new"
        /\ stack[t][i].pc = "body"
        /\ stack[t][i].obs = {stack[t][i].h}
        /\ stack[t][j].pc = "body"
        /\ stack[t][j].obs = {stack[t][i].h}

\* C4: a Required boundary entered while the slot is Active joins: it calls no
\* begin, holds no handle of its own, leaves the slot as it found it and calls
\* neither commit nor rollback.  So when a Required operation f that began the
\* transaction has called a Required operation g and returns success, the handle
\* saw one begin (f's) and exactly one commit call, f's, and no rollback.
C4_RequiredJoins ==
    \A t \in Tasks :
        /\ \A f \in FramesOf(t) :
              (f.prop = "Required" /\ f.entry # NoTx /\ f.pc # "enter") =>
                  /\ f.mode = "join"
                  /\ f.begins = 0
                  /\ f.h = NoTx
                  /\ f.commits = 0
                  /\ f.rollbacks = 0
        /\ \A i \in 1..Depth(t) :
              stack[t][i].mode = "join" => get_current_transaction(t) = stack[t][i].entry
        /\ \A f \in FramesOf(t) :
              (BeganRequired(f) /\ f.sub.mode = "join" /\ f.result = TxOk /\ f.pc = "ret") =>
                  /\ f.begins = 1
                  /\ f.commits = 1
                  /\ handles[f.h].commits = 1
                  /\ handles[f.h].rollbacks = 0
                  /\ handles[f.h].dbFinal = 1

C4_Witness ==
    \E t \in Tasks :
        /\ returned[t] # NoFrame
        /\ returned[t].pc = "ret"
        /\ BeganRequired(returned[t])
        /\ returned[t].sub = [ret |-> TxOk, mode |-> "join"]
        /\ returned[t].result = TxOk
        /\ handles[returned[t].h].commits = 1
        /\ handles[returned[t].h].db = "committed"

\* C5: a RequiresNew boundary always begins a fresh handle, whether the slot is
\* Absent or Active: once it is past its dispatch it has called begin, and it
\* has not been aborted instead.
C5_RequiresNewBegins ==
    \A t \in Tasks : \A f \in FramesOf(t) :
        (f.prop = "RequiresNew" /\ f.pc # "enter") => (f.begins >= 1 /\ f.pc # "panic")

\* C31: a boundary that began a transaction finalizes it only after the scope
\* has ended: while it holds the lock for the finalize call and once the call
\* has been made, the task's slot does not hold the handle, and a handle on
\* which commit or rollback has been called is in no task's slot.
C31_FinalizeAfterScope ==
    /\ \A t \in Tasks :
           (Depth(t) > 0 /\ Top(t).h # NoTx /\ Top(t).pc \in {"finalize", "ret"}) =>
               /\ get_current_transaction(t) # Top(t).h
               /\ \A i \in 1..Len(slot[t]) : slot[t][i] # Top(t).h
    /\ \A h \in Handles :
           handles[h].commits + handles[h].rollbacks > 0 =>
               \A t \in Tasks : \A i \in 1..Len(slot[t]) : slot[t][i] # h

\* The block read the handle from the slot while it ran; the boundary has now
\* committed it and the slot no longer shows it.
C31_Witness ==
    \E t \in Tasks :
        /\ Depth(t) > 0 /\ Top(t).pc = "ret" /\ Top(t).mode = "new"
        /\ Top(t).obs = {Top(t).h}
        /\ handles[Top(t).h].commits = 1
        /\ get_current_transaction(t) = NoTx

\* A Required boundary entered with the slot Absent whose begin call failed.
BeginFailed(f) == f.prop = "Required" /\ f.entry = NoTx /\ f.begins = 1 /\ f.h = NoTx

\* C32: when begin fails for a Required boundary entered with the slot Absent,
\* the boundary returns the Internal error, its block never runs (no result,
\* nothing read), it calls neither commit nor rollback, and the slot is Absent
\* while begin is awaited and when the boundary returns.
C32_BeginFailureReturnsInternal ==
    \A t \in Tasks :
        /\ \A f \in FramesOf(t) :
               BeginFailed(f) =>
                   /\ f.pc = "ret"
                   /\ f.ret = TxInternal("begin")
                   /\ f.result = "-" /\ f.obs = {} /\ f.mode = "-"
                   /\ f.commits = 0 /\ f.rollbacks = 0
        /\ (Depth(t) > 0 /\ (Top(t).pc = "begin" \/ BeginFailed(Top(t)))) =>
               get_current_transaction(t) = NoTx

\* Begin has just failed for a top-level boundary while an earlier handle of
\* the task exists untouched by it.
C32_Witness ==
    \E t \in Tasks :
        /\ Depth(t) = 1 /\ BeginFailed(Top(t)) /\ Top(t).pc = "ret"
        /\ returned[t] # NoFrame /\ returned[t].h # NoTx
        /\ handles[returned[t].h].commits + handles[returned[t].h].rollbacks = 1

\* C33: the finalize decision looks at the outermost block's result only: when
\* a joined inner Required call returned a failure and the outer block
\* nevertheless returned success, the outer boundary commits the shared handle
\* and rollback is never called on it.
C33_OuterResultDecides ==
    \A t \in Tasks : \A f \in FramesOf(t) :
        (BeganRequired(f) /\ f.sub.mode = "join" /\ f.sub.ret \notin {"-", TxOk}
            /\ f.result = TxOk /\ f.pc = "ret") =>
            /\ f.commits = 1 /\ f.rollbacks = 0
            /\ handles[f.h].commits = 1
            /\ handles[f.h].rollbacks = 0

C33_Witness ==
    \E t \in Tasks :
        /\ returned[t] # NoFrame /\ returned[t].pc = "ret"
        /\ BeganRequired(returned[t])
        /\ returned[t].sub = [ret |-> "E1", mode |-> "join"]
        /\ returned[t].result = TxOk
        /\ handles[returned[t].h].db = "committed"

\* The guards repository calls of task t took at depth d or deeper.
RepoGuardsFrom(t, d) == {RepoGuard(t, e) : e \in d..MaxDepth}

\* Once the boundary is past its block, nothing inside the block holds or waits
\* for the handle's lock any more.
C40_GuardsReleased ==
    \A t \in Tasks :
        (Depth(t) > 0 /\ Top(t).h # NoTx /\ Top(t).pc \in {"lock", "finalize", "ret"}) =>
            /\ \A h \in Handles : handles[h].lock \notin RepoGuardsFrom(t, Depth(t))
            /\ Top(t).repo = "-"
            /\ Top(t).pc = "lock" => handles[Top(t).h].lock = <<>>

\* C40: a Required boundary always returns when begin, the wrapped operation,
\* commit and rollback terminate: when the boundary comes to lock the handle
\* for finalization every guard taken inside the wrapped operation has been
\* released, so the lock is free, the boundary gets it, and every call that
\* was entered returns.
C40_BoundaryReturns ==
    /\ []C40_GuardsReleased
    /\ \A d \in 1..MaxDepth :
           (Depth(RequestTask) = d /\ Top(RequestTask).pc = "lock")
               ~> (Depth(RequestTask) = d /\ Top(RequestTask).pc = "finalize")
    /\ (Depth(RequestTask) > 0) ~> (Depth(RequestTask) = 0)

\* The block called the repository, which took and released the handle's
\* lock, then a joined inner method; the boundary now holds the lock itself.
C40_Witness ==
    /\ Depth(RequestTask) = 1
    /\ Top(RequestTask).pc = "finalize"
    /\ Top(RequestTask).obs = {Top(RequestTask).h}
    /\ Top(RequestTask).sub.mode = "join"
    /\ handles[Top(RequestTask).h].lock = Guard(RequestTask, 1)

\* ---------------------------------------------------- properties of a handle

\* C6: handles are consume-once.  Whatever commit/rollback calls are made on one
\* handle, the underlying transaction is finalized at most once; the first call
\* finalizes the handle, and from then on every commit returns an error and
\* every rollback returns success without touching the database.
C6_ConsumeOnce ==
    \A h \in Handles :
        /\ handles[h].dbFinal <= 1
        /\ Len(hLog[h]) >= 1 => (handles[h].inner = "None" /\ handles[h].dbFinal = 1)
        /\ \A i \in 2..Len(hLog[h]) :
              /\ hLog[h][i].op = "commit" => hLog[h][i].res # TxOk
              /\ hLog[h][i].op = "rollback" => hLog[h][i].res = TxOk

C6_Witness ==
    \E h \in Handles :
        /\ Len(hLog[h]) >= 4
        /\ hLog[h][1] = [op |-> "commit", res |-> TxOk]
        /\ hLog[h][2] = [op |-> "commit", res |-> TxInternal("already finalized")]
        /\ hLog[h][3] = [op |-> "rollback", res |-> TxOk]
        /\ hLog[h][4] = [op |-> "rollback", res |-> TxOk]
        /\ handles[h].db = "committed"

\* ------------------------------------------------ properties of the container

Registered(T) == lastReg[T] # 0
Bound(C) == lastBind[C].impl # "-"

\* C7: resolve::<T>() returns the instance most recently registered for T, also
\* when T was registered before (the earlier instance is no longer resolvable),
\* and the container holds exactly one entry per registered type.
C7_LastRegistrationWins ==
    /\ (lastCall.op = "resolve" /\ Registered(lastCall.ty)) =>
           lastCall.res = Resolved(lastReg[lastCall.ty])
    /\ len = Cardinality({T \in Types : Registered(T)})

C7_Witness ==
    /\ lastCall = [op |-> "resolve", ty |-> "A", res |-> Resolved(2)]
    /\ ~Registered("B")
    /\ len = 1

\* C8: resolve::<T>() of a type that was never registered and resolve_trait::<C>()
\* of a capability that was never bound return a DependencyNotFound error
\* value; neither panics.
C8_MissReturnsDependencyNotFound ==
    /\ (lastCall.op = "resolve" /\ ~Registered(lastCall.ty)) =>
           (lastCall.res.kind = "Err" /\ lastCall.res.err = "DependencyNotFound")
    /\ (lastCall.op = "resolve_trait" /\ ~Bound(lastCall.trait)) =>
           (lastCall.res.kind = "Err" /\ lastCall.res.err = "DependencyNotFound")

C8_Witness ==
    /\ lastCall.op = "resolve"
    /\ ~Registered(lastCall.ty)
    /\ lastCall.res = DependencyNotFound(lastCall.ty)
    /\ \E T \in Types : Registered(T)
    /\ \E C \in Traits : ~Bound(C) /\ resolve_trait(C) = DependencyNotFound("Unknown Trait")

\* C9: resolve_trait::<C>() succeeds exactly when a binding for C exists and a
\* service entry exists for the concrete identity currently bound to C; with the
\* binding present and the bound type unregistered it returns DependencyNotFound.
C9_TraitResolvableIffBoundAndRegistered ==
    lastCall.op = "resolve_trait" =>
        LET C == lastCall.trait
            satisfiable == trait_mappings[C] # "-" /\ services[trait_mappings[C]] # None
        IN /\ lastCall.res.kind = "Ok" <=> satisfiable
           /\ (trait_mappings[C] # "-" /\ ~satisfiable) =>
                  (lastCall.res.kind = "Err" /\ lastCall.res.err = "DependencyNotFound")

C9_Witness ==
    /\ lastCall.op = "resolve_trait"
    /\ lastCall.res = DependencyNotFound(lastCall.trait)
    /\ trait_mappings[lastCall.trait] = "B"
    /\ services["B"] = None
    /\ services["A"] # None

\* C10: the outcome of resolve_trait::<C>() does not depend on whether
\* register_trait::<C, I> ran before or after register(I): in both orders it
\* resolves to the registered instance of I.
C10_BindingOrderIndependent ==
    (lastCall.op = "resolve_trait" /\ Bound(lastCall.trait)
        /\ Registered(lastBind[lastCall.trait].impl)) =>
        lastCall.res = Resolved(lastReg[lastBind[lastCall.trait].impl])

C10_Witness ==
    /\ lastCall.op = "resolve_trait"
    /\ lastBind[lastCall.trait].order = "bind_first"
    /\ lastCall.res.kind = "Ok"
    /\ lastCall.res.inst = lastReg[lastBind[lastCall.trait].impl]

\* C11: with capability C bound to I and I registered, resolve::<I>() and
\* resolve_trait::<C>() both succeed and hand out the same shared instance, the
\* one currently registered for I.
C11_TraitAndConcreteShareInstance ==
    (lastCall.op = "resolve_trait" /\ Bound(lastCall.trait)
        /\ Registered(lastBind[lastCall.trait].impl)) =>
        /\ lastCall.res.kind = "Ok"
        /\ resolve(lastBind[lastCall.trait].impl).kind = "Ok"
        /\ resolve(lastBind[lastCall.trait].impl).inst = lastCall.res.inst

C11_Witness ==
    /\ lastCall.op = "resolve_trait"
    /\ lastBind[lastCall.trait].impl = "A"
    /\ lastCall.res = Resolved(2)
    /\ resolve("A") = Resolved(2)
    /\ lastBind["P"].impl = "A"
    /\ lastBind["Q"].impl = "A"

\* C12: the caster stored for a capability C was registered together with the
\* concrete identity currently bound to C, and every service entry holds a
\* payload of the type it is keyed by; so resolve_trait::<C>() never runs a
\* caster on a foreign instance and never panics, also after C was re-bound to
\* another implementation.
C12_CasterMatchesBinding ==
    /\ \A C \in Traits :
          /\ casters[C] # None <=> trait_mappings[C] # "-"
          /\ casters[C] # None => (casters[C].impl = trait_mappings[C] /\ casters[C].trait = C)
    /\ \A T \in Types : services[T] # None => services[T].payload = T
    /\ lastCall.op = "resolve_trait" => lastCall.res.kind # "Panic"

C12_Witness ==
    /\ lastCall.op = "resolve_trait"
    /\ lastBind[lastCall.trait].prev = "A"
    /\ lastBind[lastCall.trait].impl = "B"
    /\ Registered("A")
    /\ lastCall.res.kind = "Ok"

\* C13: bindings are single-valued and the last register_trait wins: after C
\* was bound to I1 and then to I2, resolve_trait::<C>() resolves through I2 (its
\* registered instance, or DependencyNotFound while I2 is unregistered) and
\* never through I1, even when I1 is registered.
C13_LastBindingWins ==
    (lastCall.op = "resolve_trait" /\ Bound(lastCall.trait)) =>
        LET I2 == lastBind[lastCall.trait].impl
        IN lastCall.res = (IF Registered(I2) THEN Resolved(lastReg[I2])
                                             ELSE DependencyNotFound(lastCall.trait))

C13_Witness ==
    /\ lastCall.op = "resolve_trait"
    /\ lastBind[lastCall.trait].prev = "A"
    /\ lastBind[lastCall.trait].impl = "B"
    /\ Registered("A")
    /\ ~Registered("B")
    /\ lastCall.res = DependencyNotFound(lastCall.trait)

\* C14: when the wrapped operation of a boundary that began a transaction
\* returned success and the commit failed, the boundary returns an Internal
\* error to its caller, not the operation's success.
C14_CommitFailureIsReturned ==
    \A t \in Tasks : \A f \in FramesOf(t) :
        (f.pc = "ret" /\ f.h # NoTx /\ f.result = TxOk /\ handles[f.h].db = "commit failed") =>
            f.ret = TxInternal("Failed to commit transaction")

C14_Witness ==
    \E t \in Tasks :
        /\ returned[t] # NoFrame
        /\ returned[t].pc = "ret"
        /\ returned[t].h # NoTx
        /\ returned[t].result = TxOk
        /\ returned[t].commits = 1
        /\ handles[returned[t].h].db = "commit failed"
        /\ returned[t].ret = TxInternal("Failed to commit transaction")

\* C15: when the wrapped operation of a Required boundary that began a
\* transaction failed and the rollback failed too, the boundary still returns
\* the wrapped operation's error.
C15_RollbackFailureDoesNotMask ==
    \A t \in Tasks : \A f \in FramesOf(t) :
        (f.pc = "ret" /\ BeganRequired(f) /\ f.result \notin {"-", TxOk}
            /\ handles[f.h].db = "rollback failed") =>
            f.ret = f.result

C15_Witness ==
    \E t \in Tasks :
        /\ returned[t] # NoFrame
        /\ returned[t].pc = "ret"
        /\ BeganRequired(returned[t])
        /\ returned[t].result = "E2"
        /\ handles[returned[t].h].db = "rollback failed"
        /\ handles[returned[t].h].rollbacks = 1
        /\ returned[t].ret = "E2"

\* C17: when the task running a boundary's wrapped operation is cancelled after
\* begin succeeded and before the operation completed, the boundary has called
\* rollback on the handle it began by the time the slot is relinquished.
C17_CancelRollsBack ==
    \A t \in Tasks : \A f \in FramesOf(t) :
        (f.pc = "cancelled" /\ f.h # NoTx /\ f.result = "-") =>
            (f.rollbacks = 1 /\ handles[f.h].rollbacks >= 1)

\* C18: once the scope of a boundary that published a handle has ended, the
\* task's slot reads what it read when the boundary was entered, on every exit
\* path: while the boundary finalizes, when it is about to return (commit or
\* rollback having succeeded or failed) and after it has returned to the
\* request handler.
C18_SlotRestored ==
    \A t \in Tasks :
        /\ (Depth(t) > 0 /\ Top(t).mode = "new" /\ Top(t).pc \in {"lock", "finalize", "ret"})
               => get_current_transaction(t) = Top(t).entry
        /\ (Depth(t) = 0 /\ task[t] = "run" /\ returned[t].pc = "ret"
               /\ returned[t].mode = "new")
               => get_current_transaction(t) = returned[t].entry

C18_Witness ==
    \E t \in Tasks :
        /\ Depth(t) = 0 /\ task[t] = "run"
        /\ returned[t].pc = "ret" /\ returned[t].mode = "new"
        /\ NoTx \notin returned[t].obs /\ returned[t].obs # {}
        /\ handles[returned[t].h].db \in {"commit failed", "rollback failed"}
        /\ get_current_transaction(t) = NoTx

\* C19: with two tasks each inside its own Required boundary, a task never
\* reads the other task's handle from the slot, each boundary begins a handle
\* of its own, only the task that began a handle locks it, and a handle stays
\* open and unfinalized until its own boundary finalizes it, exactly once.
C19_TasksIsolated ==
    /\ \A h \in Handles :
           handles[h].lock # <<>> => handles[h].lock[1] = handles[h].owner
    /\ \A t \in Tasks :
           Depth(t) > 0 =>
               /\ \A h \in Top(t).obs \ {NoTx} : handles[h].owner = t
               /\ Top(t).h # NoTx =>
                      /\ Top(t).begins = 1
                      /\ handles[Top(t).h].owner = t
               /\ Top(t).pc \in {"body", "lock", "finalize"} =>
                      /\ Top(t).h # NoTx
                      /\ handles[Top(t).h].inner = "Some"
                      /\ handles[Top(t).h].commits + handles[Top(t).h].rollbacks = 0
               /\ Top(t).pc = "ret" /\ Top(t).h # NoTx =>
                      /\ handles[Top(t).h].commits = Top(t).commits
                      /\ handles[Top(t).h].rollbacks = Top(t).rollbacks
                      /\ Top(t).commits + Top(t).rollbacks = 1

\* Both tasks are inside their boundaries at once, one has read its handle and
\* is still running its block while the other has just finalized its own.
C19_Witness ==
    \E t, u \in Tasks :
        /\ t # u /\ Depth(t) > 0 /\ Depth(u) > 0
        /\ Top(t).pc = "body" /\ Top(t).obs = {Top(t).h}
        /\ Top(u).pc = "ret" /\ Top(u).h # NoTx /\ Top(u).h # Top(t).h
        /\ handles[Top(u).h].inner = "None"

\* C20: the lock around a handle is held only by the boundary that began the
\* handle, and only once its wrapped operation has completed (for the commit or
\* rollback call); nothing running inside the boundary holds it while the
\* wrapped operation is still in progress.
C20_LockOnlyForFinalize ==
    \A h \in Handles :
        handles[h].lock # <<>> =>
            \E t \in Tasks :
                /\ Depth(t) > 0
                /\ Top(t).h = h
                /\ Top(t).pc \in {"finalize", "ret"}
                /\ handles[h].lock = Guard(t, Depth(t))

\* C21: a boundary whose mode is Supports, Mandatory, Nested, Never or
\* NotSupported fails at its dispatch, whatever the slot holds: it is never seen
\* past the dispatch other than aborted, it began no handle, its block never
\* ran (no result, nothing read) and, up to the failure, the slot reads what it
\* read when the boundary was entered.
FailingModes == {"Supports", "Mandatory", "Nested", "Never", "NotSupported"}

C25_MissingBindingVsMissingImpl ==
    (lastCall.op = "resolve_trait" /\ lastCall.res.kind = "Err"
        /\ lastCall.res.err = "DependencyNotFound") =>
        /\ lastBind[lastCall.trait].impl = "-" <=> lastCall.res.type_name = "Unknown Trait"
        /\ lastBind[lastCall.trait].impl # "-" =>
               /\ services[lastBind[lastCall.trait].impl] = None
               /\ lastCall.res.type_name = lastCall.trait

\* A capability bound to an unregistered implementation has just been resolved,
\* while another capability has no binding at all.
C25_Witness ==
    /\ lastCall.op = "resolve_trait"
    /\ lastCall.res = DependencyNotFound(lastCall.trait)
    /\ trait_mappings[lastCall.trait] # "-"
    /\ services[trait_mappings[lastCall.trait]] = None
    /\ \E C \in Traits : resolve_trait(C) = DependencyNotFound("Unknown Trait")

\* C26: contains, len, is_empty, resolve and resolve_trait are read-only: a step
\* that is one of these calls, whether it succeeds or returns an error, leaves
\* the service entries, the bindings and the casters as they were.
C26_QueriesAreReadOnly ==
    [][lastCall'.op \in {"resolve", "resolve_trait", "contains", "len"} =>
           UNCHANGED <<services, trait_mappings, casters>>]_vars

\* A query has just returned an error on a container that holds an entry and a
\* binding.
C26_Witness ==
    /\ lastCall.op \in {"resolve", "resolve_trait"}
    /\ lastCall.res.kind = "Err"
    /\ len > 0
    /\ \E C \in Traits : casters[C] # None

\* resolve::<T>() would succeed now (a capability type is never registered, so
\* resolve misses it).
WouldResolve(T) == T \in Types /\ resolve(T).kind = "Ok"

\* C27 as stated: contains::<T>() is true exactly when an instance of T has
\* been registered, that is exactly when resolve::<T>() would succeed.
C27_ContainsIffRegistered ==
    lastCall.op = "contains" => (lastCall.res <=> WouldResolve(lastCall.ty))

\* C27 amended: contains::<T>() is true exactly when an instance of T has been
\* registered or T is the capability of a binding made with register_trait;
\* for a T that no binding names as its capability it is true exactly when
\* resolve::<T>() would succeed, false before any register(T) and true after.
C27_ContainsIffRegisteredOrBound ==
    lastCall.op = "contains" =>
        /\ lastCall.res <=>
               \/ WouldResolve(lastCall.ty)
               \/ (lastCall.ty \in Traits /\ lastBind[lastCall.ty].impl # "-")
        /\ lastCall.ty \in Types => (lastCall.res <=> lastReg[lastCall.ty] # 0)

\* contains has just answered true for a Sized capability that is bound and
\* that resolve would miss, on a container where a registered type exists too.
C27_Witness ==
    /\ lastCall.op = "contains"
    /\ lastCall.ty \in SizedCaps
    /\ lastCall.res
    /\ ~WouldResolve(lastCall.ty)
    /\ \E T \in Types : contains(T) /\ WouldResolve(T)

\* --------------------------------------------- properties of the interceptor

\* C16: when the downstream handler returned an error and the rollback that
\* follows fails too, intercept returns the handler's error, not the rollback's.
C16_InterceptorKeepsHandlerError ==
    (icpt.pc = "done" /\ icpt.ran /\ icpt.result.kind = "Err"
        /\ handles[icpt.h].db = "rollback failed") =>
        icpt.ret = icpt.result

\* C34: an intercept whose begin succeeded and whose handler completed makes
\* exactly one finalize call on its handle: rollback when the handler returned
\* an error or a 5xx response, commit for every other status; it never makes
\* both.  When begin failed, the handler was never run and nothing is finalized.
C34_InterceptorFinalizesOnce ==
    /\ icpt.commits + icpt.rollbacks <= 1
    /\ icpt.ran => icpt.h # NoTx
    /\ icpt.h # NoTx =>
           /\ handles[icpt.h].commits = icpt.commits
           /\ handles[icpt.h].rollbacks = icpt.rollbacks
    /\ (icpt.pc = "done" /\ icpt.h # NoTx) =>
           /\ icpt.ran
           /\ icpt.commits + icpt.rollbacks = 1
           /\ icpt.rollbacks = 1 <=>
                  \/ icpt.result.kind = "Err"
                  \/ icpt.result.kind = "Ok" /\ icpt.result.status \div 100 = 5
    /\ (icpt.pc = "done" /\ icpt.h = NoTx) =>
           /\ ~icpt.ran /\ icpt.result = NoResult
           /\ icpt.commits = 0 /\ icpt.rollbacks = 0
           /\ icpt.ret.kind = "Err"

\* A 404 response has been committed.
C34_Witness ==
    /\ icpt.pc = "done" /\ icpt.ran
    /\ icpt.result = Response(404)
    /\ handles[icpt.h].db = "committed"
    /\ icpt.commits = 1 /\ icpt.rollbacks = 0

\* C35: the interceptor's handle is only in the request extensions, never in
\* the task-local slot: while the handler runs, get_current_transaction() at
\* handler level is none, and a Required boundary the handler calls is entered
\* with the slot Absent, does not join, and begins a handle of its own that is
\* not the interceptor's.
C35_InterceptorNotAmbient ==
    icpt.pc = "handler" =>
        /\ icpt.ext = icpt.h /\ icpt.h # NoTx
        /\ \A i \in 1..Len(slot[RequestTask]) : slot[RequestTask][i] # icpt.h
        /\ Depth(RequestTask) = 0 => get_current_transaction(RequestTask) = NoTx
        /\ Depth(RequestTask) > 0 =>
               LET f == stack[RequestTask][1]
               IN /\ f.entry = NoTx
                  /\ f.mode # "join"
                  /\ f.h # icpt.h
                  /\ f.pc \in {"body", "lock", "finalize"} => f.h # NoTx

\* The handler is inside a Required boundary that runs on a second open
\* transaction while the interceptor's is open too.
C35_Witness ==
    /\ icpt.pc = "handler"
    /\ Depth(RequestTask) = 1
    /\ Top(RequestTask).pc = "body" /\ Top(RequestTask).mode = "new"
    /\ Top(RequestTask).h # icpt.h
    /\ handles[Top(RequestTask).h].inner = "Some"
    /\ handles[icpt.h].inner = "Some"
    /\ get_current_transaction(RequestTask) = Top(RequestTask).h

\* ---------------------------------------------------- properties of Lazy<T>

\* C22: for one Lazy<T> handle the container's resolve::<T>() runs at most once
\* under every interleaving, and exactly once when any dereference has
\* returned; a dereference returns only when the initializer has completed and
\* the instance is set, and all dereferences return that one instance.
C22_LazySingleFlight ==
    /\ lazy.resolves <= 1
    /\ lazy.seen \subseteq {lazy.instance} \ {0}
    /\ \A t \in Tasks :
           lzTask[t].pc \in {"read", "done"} =>
               /\ lazy.once = "done"
               /\ lazy.instance # 0
               /\ lazy.resolves = 1
               /\ lzTask[t].pc = "done" => lzTask[t].got = lazy.instance

\* Two threads raced on the first dereference: one ran the initializer, the
\* other blocked in call_once; both hold the same instance, although the type
\* has been registered again since.
C22_Witness ==
    \E t, u \in Tasks :
        /\ lzTask[t].pc = "done" /\ lzTask[t].first
        /\ lzTask[u].pc = "done" /\ lzTask[u].waited
        /\ lzTask[t].got = lzTask[u].got
        /\ services[LazyType].instance # lazy.instance

\* C23: a failed first dereference stays with the request that made it: a
\* thread panics inside deref only if it ran the failing initializer itself or
\* T was not registered when its own dereference started.
C23_LazyFailureConfined ==
    \A t \in Tasks :
        lzTask[t].pc = "panicked" => (lzTask[t].first \/ ~lzTask[t].regAt)

\* ------------------------------------------- properties of #[module] register

\* Entry i of the registration order finds its eagerly injected dependencies in
\* the container: the entries before it registered the types of its Arc<T>
\* fields and bound the capabilities of its Arc<dyn Trait> fields.
DepMet(order, i, f) ==
    CASE f.kind = "arc" -> \E j \in 1..(i - 1) : order[j].ty = f.ty
      [] f.kind = "dyn" -> \E j \in 1..(i - 1) : order[j].trait = f.ty
      [] OTHER -> TRUE

DepsMet(order, i) == \A k \in 1..Len(order[i].deps) : DepMet(order, i, order[i].deps[k])

\* C24: register() builds the entries in the order imports, providers,
\* controllers against the container filled so far.  What has been built and
\* registered is a prefix of that order, each built entry found its eager
\* dependencies registered before it; when an entry does not, registration
\* fails there with DependencyNotFound and nothing after it is built or
\* registered; registration succeeds only when every entry has been built.
C24_ModuleRegistersInOrder ==
    modReg.phase # "idle" =>
        /\ modReg.order = modReg.decl.imports \o modReg.decl.providers \o modReg.decl.controllers
        /\ Len(modReg.built) = modReg.pos - 1
        /\ \A i \in 1..Len(modReg.built) :
               modReg.built[i] = modReg.order[i].ty /\ DepsMet(modReg.order, i)
        /\ \A T \in Types :
               services[T] # None <=> \E i \in 1..Len(modReg.built) : modReg.built[i] = T
        /\ modReg.phase = "failed" =>
               /\ ~DepsMet(modReg.order, modReg.pos)
               /\ modReg.result.kind = "Err"
               /\ modReg.result.err = "DependencyNotFound"
        /\ modReg.phase = "ok" => Len(modReg.built) = Len(modReg.order)

\* A provider declared before the provider it injects failed, after an import
\* had been registered and with a controller still to come.
C24_Witness ==
    /\ modReg.phase = "failed"
    /\ modReg.pos = 2 /\ Len(modReg.order) = 3
    /\ modReg.decl.imports # <<>> /\ modReg.decl.controllers # <<>>
    /\ modReg.order[2].deps = <<Field("arc", modReg.order[3].ty)>>
    /\ services[modReg.order[3].ty] = None

\* ------------------------------------------------- properties of the lifecycle

\* The services whose hook of phase p has been invoked, in invocation order.
PhaseLog(p) ==
    LET entries == SelectSeq(life.log, LAMBDA e : e[1] = p)
    IN [i \in 1..Len(entries) |-> entries[i][2]]

IsPrefix(a, b) == Len(a) <= Len(b) /\ \A i \in 1..Len(a) : a[i] = b[i]

PhaseRank(p) ==
    CASE p = "init" -> 1 [] p = "bootstrap" -> 2 [] p = "shutdown" -> 3 [] p = "destroy" -> 4

\* C28: call_module_destroy invokes the OnModuleDestroy hooks in the reverse of
\* their registration order: what has been invoked so far is the beginning of
\* the reversed list, and when the call has returned it is the whole reversed
\* list, each hook once.
C28_DestroyReverseOrder ==
    /\ IsPrefix(PhaseLog("destroy"), Reverse(life.hooks["destroy"]))
    /\ life.pc = "destroy" => Len(PhaseLog("destroy")) = life.pos - 1
    /\ life.pc = "stopped" => PhaseLog("destroy") = Reverse(life.hooks["destroy"])

C28_Witness ==
    /\ life.pc = "stopped"
    /\ life.hooks["destroy"] = <<"s1", "s2">>
    /\ PhaseLog("destroy") = <<"s2", "s1">>

\* C29: call_module_init and call_application_bootstrap invoke their hooks in
\* registration order and stop at the first that fails: the error returned is
\* HookFailed naming the hook invoked last and nothing is invoked after it; no
\* hook error is passed over, and a call that returned Ok has invoked every
\* hook of its phase exactly once.
C29_InitBootstrapFailFast ==
    /\ \A p \in {"init", "bootstrap"} :
           /\ IsPrefix(PhaseLog(p), life.hooks[p])
           /\ life.failedAt = p =>
                  /\ life.pc = "failed"
                  /\ life.log # <<>>
                  /\ life.log[Len(life.log)][1] = p
                  /\ life.result = HookFailed(life.log[Len(life.log)][2])
    /\ life.failedAt \in {"-", "init", "bootstrap"}
    /\ life.pc \in {"init", "bootstrap", "running", "failed"} => life.errors = 0
    /\ (life.pc \in {"bootstrap", "running", "shutdown", "destroy", "stopped"}
            \/ life.failedAt = "bootstrap") => PhaseLog("init") = life.hooks["init"]
    /\ life.pc \in {"running", "shutdown", "destroy", "stopped"} =>
           PhaseLog("bootstrap") = life.hooks["bootstrap"]

\* The second of two bootstrap hooks was never invoked because the first failed,
\* after both init hooks had run.
C29_Witness ==
    /\ life.failedAt = "bootstrap"
    /\ Len(life.hooks["bootstrap"]) = 2
    /\ Len(PhaseLog("bootstrap")) = 1
    /\ Len(PhaseLog("init")) = 2
    /\ life.result = HookFailed(life.hooks["bootstrap"][1])

\* C30: the phases fire in the order init, bootstrap, shutdown, destroy.  No
\* bootstrap hook is invoked before every init hook has completed successfully;
\* a failed init hook means no bootstrap hook runs and build() returns an error
\* instead of an Application; no destroy hook is invoked before every shutdown
\* hook has been invoked.
C30_PhasesInOrder ==
    /\ \A i, j \in 1..Len(life.log) :
           i < j => PhaseRank(life.log[i][1]) <= PhaseRank(life.log[j][1])
    /\ PhaseLog("bootstrap") # <<>> =>
           /\ PhaseLog("init") = life.hooks["init"]
           /\ life.failedAt # "init"
    /\ life.failedAt = "init" =>
           /\ PhaseLog("bootstrap") = <<>>
           /\ life.pc = "failed"
           /\ life.result.kind = "HookFailed"
    /\ life.pc = "running" =>
           /\ life.result = LifeOk
           /\ PhaseLog("init") = life.hooks["init"]
           /\ PhaseLog("bootstrap") = life.hooks["bootstrap"]
    /\ PhaseLog("destroy") # <<>> => PhaseLog("shutdown") = life.hooks["shutdown"]

\* A full run: two services registered for every phase, started and shut down.
C30_Witness ==
    /\ life.pc = "stopped"
    /\ \A p \in Phases : Len(life.hooks[p]) = 2 /\ Len(PhaseLog(p)) = 2
    /\ Len(life.log) = 8

\* C38: call_application_shutdown and call_module_destroy invoke every hook of
\* their phase exactly once whether or not hooks return errors, and return Ok:
\* a failing hook neither ends the loop nor becomes the result of the call.
C38_ShutdownDestroyRunAllHooks ==
    /\ life.failedAt \notin {"shutdown", "destroy"}
    /\ life.pc = "shutdown" => PhaseLog("shutdown") = SubSeq(life.hooks["shutdown"], 1, life.pos - 1)
    /\ life.pc \in {"destroy", "stopped"} => PhaseLog("shutdown") = life.hooks["shutdown"]
    /\ life.pc = "stopped" =>
           /\ PhaseLog("destroy") = Reverse(life.hooks["destroy"])
           /\ life.result = LifeOk
    /\ life.errors <= Len(PhaseLog("shutdown")) + Len(PhaseLog("destroy"))

\* Both shutdown hooks and both destroy hooks returned an error; all four were
\* invoked and shutdown() returned Ok.
C38_Witness ==
    /\ life.pc = "stopped" /\ life.result = LifeOk
    /\ life.hooks["shutdown"] = <<"s1", "s2">> /\ PhaseLog("shutdown") = <<"s1", "s2">>
    /\ life.hooks["destroy"] = <<"s1", "s2">> /\ PhaseLog("destroy") = <<"s2", "s1">>
    /\ life.errors = 4

\* ------------------------------------------------------ properties of the saga

\* The execute calls and the compensate calls of the run, in call order.
ExecLog == SelectSeq(saga.log, LAMBDA c : c.op = "execute")
CompLog == SelectSeq(saga.log, LAMBDA c : c.op = "compensate")

\* The indexes k-1, ..., 0.
DownFrom(k) == [i \in 1..k |-> k - i]

\* C36: execute runs the steps in the order they were added, each one only
\* after the one before it succeeded.  When step k fails, compensate is called
\* on the succeeded steps k-1, ..., 0 in that order, each once, never on k or a
\* later step, no step after k is executed, and once every compensation has
\* succeeded the result is step k's error; when every step succeeds there is no
\* compensate call.
C36_SagaOrderAndCompensation ==
    LET n == Len(ExecLog)
        failed == n > 0 /\ ExecLog[n].res # SagaOk
        k == n - 1
    IN /\ saga.log = ExecLog \o CompLog
       /\ n <= Len(saga.steps)
       /\ \A j \in 1..n : ExecLog[j].index = j - 1
       /\ \A j \in 1..(n - 1) : ExecLog[j].res = SagaOk
       /\ ~failed => CompLog = <<>>
       /\ failed =>
              /\ IsPrefix([j \in 1..Len(CompLog) |-> CompLog[j].index], DownFrom(k))
              /\ saga.pc \in {"compensate", "done"}
       /\ (saga.pc = "done" /\ ~failed) => (n = Len(saga.steps) /\ saga.result = SagaOk)
       /\ (saga.pc = "done" /\ failed /\ \A j \in 1..Len(CompLog) : CompLog[j].res = SagaOk) =>
              /\ [j \in 1..Len(CompLog) |-> CompLog[j].index] = DownFrom(k)
              /\ saga.result = ExecLog[n].res

\* Three steps were added, the third failed, and the second and the first were
\* compensated in that order.
C36_Witness ==
    /\ saga.pc = "done" /\ Len(saga.steps) = 3
    /\ Len(ExecLog) = 3 /\ ExecLog[3].res = ExecutionFailed(<<"x">>)
    /\ [j \in 1..Len(CompLog) |-> CompLog[j].index] = <<1, 0>>
    /\ saga.result = ExecutionFailed(<<"x">>)

\* C37: a compensation that fails ends execute at once: it is the last call of
\* the run, no compensate is called on the remaining earlier steps, and the
\* result is CompensationFailed carrying the text of the compensation's error,
\* not the error of the step that failed.
C37_CompensationFailureStops ==
    \A j \in 1..Len(CompLog) :
        CompLog[j].res # SagaOk =>
            /\ j = Len(CompLog)
            /\ saga.log[Len(saga.log)] = CompLog[j]
            /\ saga.pc = "done"
            /\ \A i \in 0..(CompLog[j].index - 1) :
                   \A c \in 1..Len(CompLog) : CompLog[c].index # i
            /\ saga.result = CompensationFailed(to_string(CompLog[j].res))
            /\ saga.result # ExecLog[Len(ExecLog)].res

\* The third step failed and the compensation of the second failed: the first
\* step, which had succeeded, is left uncompensated.
C37_Witness ==
    /\ saga.pc = "done" /\ Len(ExecLog) = 3
    /\ Len(CompLog) = 1 /\ CompLog[1].index = 1
    /\ CompLog[1].res = ExecutionFailed(<<"x">>)
    /\ saga.result = CompensationFailed(<<"Saga execution failed: ", "x">>)

\* ------------------------------------------------ properties of the middleware

\* What has been entered and what has returned, in order.
EnterSeq ==
    LET es == SelectSeq(mw.log, LAMBDA c : c.ev = "enter") IN [j \in 1..Len(es) |-> es[j].who]
ReturnLog == SelectSeq(mw.log, LAMBDA c : c.ev = "return")

\* interceptors[0], .., interceptors[n-1], then the inner service.
ListOrder(n) == [j \in 1..(n + 1) |-> IF j <= n THEN ToInterceptor(j - 1) ELSE ToInner]

\* C39: the interceptors run nested in list order.  What is entered is a
\* beginning of interceptors[0], interceptors[1], .., inner service, so
\* interceptors[0] is first and the inner service is called at most once and
\* after every interceptor; whatever is entered below a running interceptor was
\* entered by that interceptor running its Next; returns happen innermost first,
\* so interceptors[0] completes last; and what the inner service or an
\* interceptor returns, an error included, is what the enclosing interceptor's
\* next.run returns, the outermost return being the result of the call.
C39_InterceptorsNestInListOrder ==
    mw.pc \in {"run", "done"} =>
        /\ IsPrefix(EnterSeq, ListOrder(mw.n))
        /\ EnterSeq # <<>>
        /\ EnterSeq = [j \in 1..Len(mw.stack) |-> mw.stack[j].who]
                          \o Reverse([j \in 1..Len(ReturnLog) |-> ReturnLog[j].who])
        /\ \A j \in 1..(Len(mw.stack) - 1) : mw.stack[j].next = NoNext
        /\ \A j \in 1..(Len(ReturnLog) - 1) : ReturnLog[j + 1].got = ReturnLog[j].res
        /\ (ReturnLog # <<>> /\ mw.stack # <<>>) =>
               mw.stack[Len(mw.stack)].got = ReturnLog[Len(ReturnLog)].res
        /\ mw.pc = "done" =>
               /\ mw.stack = <<>>
               /\ ReturnLog[Len(ReturnLog)].who = ListOrder(mw.n)[1]
               /\ mw.result = ReturnLog[Len(ReturnLog)].res

\* Two interceptors both ran their Next, the inner service failed, and the
\* error came back through interceptors[1] and interceptors[0].
C39_Witness ==
    /\ mw.pc = "done" /\ mw.n = 2
    /\ EnterSeq = <<ToInterceptor(0), ToInterceptor(1), ToInner>>
    /\ [j \in 1..Len(ReturnLog) |-> ReturnLog[j].who]
           = <<ToInner, ToInterceptor(1), ToInterceptor(0)>>
    /\ \A j \in 1..3 : ReturnLog[j].res = HandlerErr("E1")
    /\ ReturnLog[3].got = HandlerErr("E1")
    /\ mw.result = HandlerErr("E1")

====
